---- MODULE Spec2Model ----
(***************************************************************************)
(* gatus-sidecar: the generic resource controller (internal/controller),   *)
(* the resource handler (internal/resources), the endpoint model           *)
(* (internal/endpoint) and the state manager (internal/state).             *)
(*                                                                         *)
(* Spec         the program started with the HTTPRoute controller, the     *)
(*              cluster holding any objects.                               *)
(* RestartSpec  the program restarted with the HTTPRoute and the Service   *)
(*              controller on one state manager, the cluster holding       *)
(*              qualifying objects only.                                   *)
(* MgrSpec      the state manager alone, driven through its exported       *)
(*              methods the way its unit tests drive it.                   *)
(* ConcSpec     the state manager called from several goroutines, one      *)
(*              statement at a time, with a reader of the output file.     *)
(* FnSpec       the functions of the pipeline applied to their inputs.     *)
(* LiveSpec     Spec with the backoff timer firing and Watch returning.    *)
(* StopSpec     Spec with every select taking a case that is ready.        *)
(* GoneSpec     one controller, objects deleted while its watch is down.   *)
(* EventSpec    the events of one HTTPRoute and one Service handled in     *)
(*              turn, the annotations of the Gateway changing in between.  *)
(***************************************************************************)
EXTENDS Integers, Sequences, FiniteSets, TLC

(***************************************************************************)
(* Bounds of the model.                                                    *)
(***************************************************************************)
\* largest number of items an initial list returns
MaxList == 2
\* number of watch events delivered over all controllers
MaxEvents == 1
\* number of state manager calls in MgrSpec
MaxCalls == 3
\* number of goroutines that call the state manager in ConcSpec
MaxTasks == 2
\* depth of the template trees in FnSpec
MaxDepth == 2
\* largest number of keys of a template handed to Endpoint.ApplyTemplate
MaxKeys == 2
\* number of events handled in EventSpec
MaxHandled == 3

(***************************************************************************)
(* Strings.  TLC gives Len, SubSeq and \o on strings.                      *)
(***************************************************************************)
HasPrefix(s, p) == Len(s) >= Len(p) /\ SubSeq(s, 1, Len(p)) = p

\* byte order of the characters that occur in endpoint names
Alphabet == "-.0123456789abcdefghijklmnopqrstuvwxyz"

CharRank(c) == CHOOSE i \in 1..Len(Alphabet) : SubSeq(Alphabet, i, i) = c

RECURSIVE StrLessFrom(_, _, _)
StrLessFrom(s, t, i) ==
    IF i > Len(t) THEN FALSE
    ELSE IF i > Len(s) THEN TRUE
    ELSE IF SubSeq(s, i, i) = SubSeq(t, i, i) THEN StrLessFrom(s, t, i + 1)
    ELSE CharRank(SubSeq(s, i, i)) < CharRank(SubSeq(t, i, i))

\* Go's s < t on strings
StrLess(s, t) == StrLessFrom(s, t, 1)

(***************************************************************************)
(* Go values of type any, as yaml.v3 decodes them, tagged by their dynamic *)
(* type.  A map[string]any is NilMap or MkMap(f); a []any is MkSeq(s) with *)
(* s a sequence of values; a []string is NilSeq, MkSeq(s) in a field of    *)
(* the endpoint, or Strings(s) when it is held in an any.                  *)
(***************************************************************************)
Str(s) == [str |-> s]
Bool(b) == [bool |-> b]
Num(i) == [num |-> i]
MkMap(f) == [map |-> f]
MkSeq(s) == [seq |-> s]
NilMap == [nil |-> "map"]
Strings(s) == [strs |-> s]
NilSeq == [nil |-> "seq"]
EmptyFn == [x \in {} |-> ""]

IsNil(v) == "nil" \in DOMAIN v
IsStr(v) == "str" \in DOMAIN v
IsBool(v) == "bool" \in DOMAIN v
IsMap(v) == "map" \in DOMAIN v
IsSeq(v) == "seq" \in DOMAIN v
IsStrings(v) == "strs" \in DOMAIN v

(***************************************************************************)
(* Configuration (internal/config).                                        *)
(***************************************************************************)
EnabledAnnotation == "gatus.home-operations.com/enabled"
TemplateAnnotation == "gatus.home-operations.com/endpoint"
\* time.Minute.String()
DefaultInterval == "1m0s"

\* started as: gatus-sidecar --enable-httproute --gateway-name=gw
RouteConfig ==
    [EnableHTTPRoute |-> TRUE, EnableService |-> FALSE, AutoHTTPRoute |-> FALSE,
     AutoService |-> FALSE, GatewayName |-> "gw"]

\* started as: gatus-sidecar --enable-httproute --auto-service --gateway-name=gw
RouteAndServiceConfig ==
    [EnableHTTPRoute |-> TRUE, EnableService |-> FALSE, AutoHTTPRoute |-> FALSE,
     AutoService |-> TRUE, GatewayName |-> "gw"]

(***************************************************************************)
(* Endpoint (internal/endpoint).                                           *)
(***************************************************************************)
NewEndpoint(name, url, interval, guarded) ==
    [Name |-> name, Group |-> "", URL |-> url, Conditions |-> NilSeq,
     Interval |-> interval, DNS |-> NilMap, Client |-> NilMap, UI |-> NilMap,
     Guarded |-> guarded, Extra |-> NilMap]

ReservedKeys ==
    {"name", "group", "url", "conditions", "interval", "dns", "client", "ui",
     "guarded"}

\* slip: a value of another type clears the field
setStringField_Zero(field, value) == IF IsStr(value) THEN value.str ELSE ""

setStringField(field, value) == IF IsStr(value) THEN value.str ELSE field

StringsOf(s) ==
    LET strs == SelectSeq(s, LAMBDA c : IsStr(c))
    IN  [i \in 1..Len(strs) |-> strs[i].str]

\* slip: a []any with an element that is no string is not taken
setConditionsField_AllOrNothing(field, value) ==
    IF IsStrings(value) THEN MkSeq(value.strs)
    ELSE IF IsSeq(value)
         THEN IF \A i \in DOMAIN value.seq : IsStr(value.seq[i])
              THEN MkSeq(StringsOf(value.seq)) ELSE field
    ELSE IF IsStr(value) THEN MkSeq(<<value.str>>)
    ELSE field

\* slip: the conditions of a []any are appended to the ones present
setConditionsField_Append(field, value) ==
    IF IsStrings(value) THEN MkSeq(value.strs)
    ELSE IF IsSeq(value)
         THEN MkSeq((IF IsNil(field) THEN <<>> ELSE field.seq)
                    \o StringsOf(value.seq))
    ELSE IF IsStr(value) THEN MkSeq(<<value.str>>)
    ELSE field

setConditionsField(field, value) ==
    IF IsStrings(value) THEN MkSeq(value.strs)
    ELSE IF IsSeq(value) THEN MkSeq(StringsOf(value.seq))
    ELSE IF IsStr(value) THEN MkSeq(<<value.str>>)
    ELSE field

\* maps.Copy(*field, mapValue): the override's keys win, the others stay
setMapField(field, value) ==
    IF IsMap(value)
    THEN MkMap(value.map @@ (IF IsNil(field) THEN EmptyFn ELSE field.map))
    ELSE field

AddExtraFields(extra, t) ==
    LET ks == DOMAIN t \ ReservedKeys
    IN  IF ks = {} THEN extra
        ELSE MkMap([k \in ks |-> t[k]]
                   @@ (IF IsNil(extra) THEN EmptyFn ELSE extra.map))

\* Endpoint.ApplyTemplate: every key of the template acts on its own field
ApplyTemplate(e, templateData) ==
    IF IsNil(templateData) THEN e
    ELSE LET t == templateData.map
             on(k, old, new) == IF k \in DOMAIN t THEN new ELSE old
         IN  [Name |-> on("name", e.Name, setStringField(e.Name, t["name"])),
              Group |-> on("group", e.Group, setStringField(e.Group, t["group"])),
              URL |-> on("url", e.URL, setStringField(e.URL, t["url"])),
              Conditions |-> on("conditions", e.Conditions,
                                setConditionsField(e.Conditions, t["conditions"])),
              Interval |-> on("interval", e.Interval,
                              setStringField(e.Interval, t["interval"])),
              DNS |-> on("dns", e.DNS, setMapField(e.DNS, t["dns"])),
              Client |-> on("client", e.Client, setMapField(e.Client, t["client"])),
              UI |-> on("ui", e.UI, setMapField(e.UI, t["ui"])),
              Guarded |-> on("guarded", e.Guarded,
                             IF IsBool(t["guarded"]) THEN t["guarded"].bool
                             ELSE e.Guarded),
              Extra |-> AddExtraFields(e.Extra, t)]


(***************************************************************************)
(* gopkg.in/yaml.v3 on the annotation texts the model uses.                *)
(***************************************************************************)
YamlTexts ==
    {"interval: 30s", "guarded: true", "{", "guarded: false", "guarded: 'no'",
     "name: web", "name: ''", "name: 123", "url: ''",
     "{url: 'https://o.example.com', guarded: true}",
     "{name: api, group: core, interval: 5m}"}

\* yaml.Unmarshal([]byte(templateStr), &templateData)
yamlUnmarshal(text) ==
    CASE text = "interval: 30s" ->
             [err |-> FALSE, data |-> MkMap([interval |-> Str("30s")])]
      [] text = "guarded: true" ->
             [err |-> FALSE, data |-> MkMap([guarded |-> Bool(TRUE)])]
      [] text = "{" -> [err |-> TRUE, data |-> NilMap]
      [] text = "guarded: false" ->
             [err |-> FALSE, data |-> MkMap([guarded |-> Bool(FALSE)])]
      [] text = "guarded: 'no'" ->
             [err |-> FALSE, data |-> MkMap([guarded |-> Str("no")])]
      [] text = "name: web" ->
             [err |-> FALSE, data |-> MkMap([name |-> Str("web")])]
      [] text = "name: ''" ->
             [err |-> FALSE, data |-> MkMap([name |-> Str("")])]
      [] text = "name: 123" ->
             [err |-> FALSE, data |-> MkMap([name |-> Num(123)])]
      [] text = "url: ''" ->
             [err |-> FALSE, data |-> MkMap([url |-> Str("")])]
      [] text = "{url: 'https://o.example.com', guarded: true}" ->
             [err |-> FALSE,
              data |-> MkMap([url |-> Str("https://o.example.com"),
                              guarded |-> Bool(TRUE)])]
      [] text = "{name: api, group: core, interval: 5m}" ->
             [err |-> FALSE,
              data |-> MkMap([name |-> Str("api"), group |-> Str("core"),
                              interval |-> Str("5m")])]

(***************************************************************************)
(* Watched objects.  A raw object either converts to a typed object or     *)
(* does not; a typed object has the metadata and the fields of its kind    *)
(* that the extractors read.                                               *)
(***************************************************************************)
Kinds == {"httproutes", "services"}
Names == {"a", "b"}
Namespaces == {"default"}
EventTypes == {"ADDED", "MODIFIED", "DELETED"}

EnabledValues == {"true", "1", "false"}
TemplateValues == {"interval: 30s", "{"}
ParentTemplateValues == {"{"}
ParentEnabledValues == {"false"}

AnnotationMaps ==
    { en @@ tm :
        en \in {EmptyFn} \cup {EnabledAnnotation :> v : v \in EnabledValues},
        tm \in {EmptyFn} \cup {TemplateAnnotation :> v : v \in TemplateValues} }

HostnameLists == {<<>>, <<"a.example.com">>}
ParentRefLists == {<<>>, <<"gw">>}
PortLists == {<<>>, <<[Port |-> 80, Protocol |-> "TCP"]>>}

TypedObjects(kind) ==
    IF kind = "httproutes"
    THEN [kind : {kind}, name : Names, namespace : Namespaces,
          annotations : AnnotationMaps, hostnames : HostnameLists,
          parentRefs : ParentRefLists]
    ELSE [kind : {kind}, name : Names, namespace : Namespaces,
          annotations : AnnotationMaps, ports : PortLists]

\* what the API server hands out: an object that converts, or one that does
\* not match the kind's schema
RawObjects(kind) ==
    [ok : {TRUE}, obj : TypedObjects(kind)] \cup {[ok |-> FALSE]}

\* the objects of a cluster in which every object qualifies for an endpoint
QualifyingObjects(kind) ==
    { raw \in RawObjects(kind) :
        /\ raw.ok
        /\ raw.obj.annotations = (EnabledAnnotation :> "true")
        /\ IF kind = "httproutes"
           THEN raw.obj.hostnames # <<>> /\ raw.obj.parentRefs # <<>>
           ELSE raw.obj.ports # <<>> }

\* the answers of the API server to the Get of a parent object
ParentLookups ==
    {[err |-> TRUE]} \cup
    [err : {FALSE},
     annotations : {EmptyFn} \cup
                   {TemplateAnnotation :> v : v \in ParentTemplateValues} \cup
                   {EnabledAnnotation :> v : v \in ParentEnabledValues}]

(***************************************************************************)
(* Resource definitions (internal/resources/httproute, .../service).       *)
(***************************************************************************)
dnsTestURL == "1.1.1.1"
dnsEmptyBodyCondition == "len([BODY]) == 0"
dnsQueryType == "A"

HasFilterFunc(kind) == kind = "httproutes"
HasGuardedFunc(kind) == kind = "httproutes"
HasParentExtractor(kind) == kind = "httproutes"

AutoConfigFunc(kind, cfg) ==
    IF kind = "httproutes" THEN cfg.AutoHTTPRoute ELSE cfg.AutoService

referencesGateway(route, gatewayName) ==
    \E i \in 1..Len(route.parentRefs) : route.parentRefs[i] = gatewayName

filterFunc(obj, cfg) ==
    IF cfg.GatewayName # "" THEN referencesGateway(obj, cfg.GatewayName)
    ELSE TRUE

getFirstHostname(route) ==
    IF Len(route.hostnames) = 0 THEN "" ELSE route.hostnames[1]

ToLower(s) == CASE s = "TCP" -> "tcp" [] s = "UDP" -> "udp" [] OTHER -> s

urlExtractor(obj) ==
    IF obj.kind = "httproutes"
    THEN LET hostname == getFirstHostname(obj)
         IN  IF hostname = "" THEN ""
             ELSE IF ~HasPrefix(hostname, "http") THEN "https://" \o hostname
             ELSE hostname
    ELSE IF Len(obj.ports) = 0 THEN ""
         ELSE ToLower(obj.ports[1].Protocol) \o "://" \o obj.name \o "."
              \o obj.namespace \o ".svc:" \o ToString(obj.ports[1].Port)

conditionFunc(obj, e) ==
    IF obj.kind = "httproutes"
    THEN [e EXCEPT !.Conditions = MkSeq(<<"[STATUS] == 200">>)]
    ELSE [e EXCEPT !.Conditions = MkSeq(<<"[CONNECTED] == true">>)]

applyGuardedTemplate(dnsQueryName, e) ==
    [e EXCEPT !.URL = dnsTestURL,
              !.DNS = MkMap(("query-name" :> Str(dnsQueryName))
                            @@ ("query-type" :> Str(dnsQueryType))),
              !.Conditions = MkSeq(<<dnsEmptyBodyCondition>>)]

guardedFunc(obj, e) == applyGuardedTemplate(getFirstHostname(obj), e)

\* nil without a parent reference, and when the first parent is no Gateway
\* or the Get fails: lookup.err stands for both
parentExtractor(obj, lookup) ==
    IF Len(obj.parentRefs) = 0 THEN NilMap
    ELSE IF lookup.err THEN NilMap
    ELSE MkMap(lookup.annotations)

(***************************************************************************)
(* Resource handler (internal/resources).                                  *)
(***************************************************************************)
HasRequiredAnnotations(obj) ==
    \/ EnabledAnnotation \in DOMAIN obj.annotations
    \/ TemplateAnnotation \in DOMAIN obj.annotations

\* slip: the auto flag is looked at before the filter
ShouldProcess_AutoFirst(obj, cfg) ==
    IF AutoConfigFunc(obj.kind, cfg) THEN TRUE
    ELSE IF HasFilterFunc(obj.kind) /\ ~filterFunc(obj, cfg) THEN FALSE
    ELSE HasRequiredAnnotations(obj)

ShouldProcess(obj, cfg) ==
    IF HasFilterFunc(obj.kind) /\ ~filterFunc(obj, cfg) THEN FALSE
    ELSE IF AutoConfigFunc(obj.kind, cfg) THEN TRUE
    ELSE HasRequiredAnnotations(obj)

ExtractURL(obj) == urlExtractor(obj)

\* slip: the guarded branch does not return
HandlerApplyTemplate_FallThrough(obj, e) ==
    IF e.Guarded /\ HasGuardedFunc(obj.kind)
    THEN conditionFunc(obj, guardedFunc(obj, e))
    ELSE conditionFunc(obj, e)

HandlerApplyTemplate(obj, e) ==
    IF e.Guarded /\ HasGuardedFunc(obj.kind) THEN guardedFunc(obj, e)
    ELSE conditionFunc(obj, e)

GetParentAnnotations(obj, lookup) ==
    IF ~HasParentExtractor(obj.kind) THEN NilMap
    ELSE parentExtractor(obj, lookup)

(***************************************************************************)
(* Controller: the pure part of the per-event pipeline                     *)
(* (internal/controller).                                                  *)
(***************************************************************************)
\* slip: the key of the Manager's comment, name and namespace only
KeyOf_NoResource(obj, resource) == obj.name \o "." \o obj.namespace

\* fmt.Sprintf("%s.%s.%s", name, namespace, resource)
KeyOf(obj, resource) == obj.name \o "." \o obj.namespace \o "." \o resource

\* slip: the value is read under the template annotation's key
isEndpointDisabled_WrongKey(annotations) ==
    /\ TemplateAnnotation \in DOMAIN annotations
    /\ annotations[TemplateAnnotation] # "true"
    /\ annotations[TemplateAnnotation] # "1"

isEndpointDisabled(annotations) ==
    /\ EnabledAnnotation \in DOMAIN annotations
    /\ annotations[EnabledAnnotation] # "true"
    /\ annotations[EnabledAnnotation] # "1"

isGuardedEndpoint(templateData) ==
    IF IsNil(templateData) THEN FALSE ELSE "guarded" \in DOMAIN templateData.map

parseTemplateData(annotations, annotationKey) ==
    IF annotationKey \notin DOMAIN annotations \/ annotations[annotationKey] = ""
    THEN [err |-> FALSE, data |-> NilMap]
    ELSE yamlUnmarshal(annotations[annotationKey])

\* slip: a shared key always takes the child's value
deepMergeTemplates_Shallow(parent, child) ==
    IF IsNil(parent) THEN child
    ELSE IF IsNil(child) THEN parent
    ELSE MkMap([key \in DOMAIN parent.map \cup DOMAIN child.map |->
                IF key \notin DOMAIN child.map THEN parent.map[key]
                ELSE child.map[key]])

RECURSIVE deepMergeTemplates(_, _)
deepMergeTemplates(parent, child) ==
    IF IsNil(parent) THEN child
    ELSE IF IsNil(child) THEN parent
    ELSE MkMap([key \in DOMAIN parent.map \cup DOMAIN child.map |->
                IF key \notin DOMAIN child.map THEN parent.map[key]
                ELSE IF /\ key \in DOMAIN parent.map
                        /\ IsMap(parent.map[key])
                        /\ IsMap(child.map[key])
                     THEN deepMergeTemplates(parent.map[key], child.map[key])
                     ELSE child.map[key]])

\* slip: the error of the parent's template is dropped
buildTemplateData_IgnoreParentErr(obj, lookup) ==
    LET parentAnnotations ==
            LET pa == GetParentAnnotations(obj, lookup)
            IN  IF IsNil(pa) THEN EmptyFn ELSE pa.map
        parentTemplateData == parseTemplateData(parentAnnotations, TemplateAnnotation)
        objectTemplateData == parseTemplateData(obj.annotations, TemplateAnnotation)
    IN  IF objectTemplateData.err THEN [err |-> TRUE, data |-> NilMap]
        ELSE [err |-> FALSE,
              data |-> deepMergeTemplates(parentTemplateData.data,
                                          objectTemplateData.data)]

\* slip: a parent whose annotations could not be read fails the event
buildTemplateData_NilParentFails(obj, lookup) ==
    LET pa == GetParentAnnotations(obj, lookup)
        parentTemplateData == parseTemplateData(IF IsNil(pa) THEN EmptyFn ELSE pa.map,
                                                TemplateAnnotation)
        objectTemplateData == parseTemplateData(obj.annotations, TemplateAnnotation)
    IN  IF IsNil(pa) \/ parentTemplateData.err THEN [err |-> TRUE, data |-> NilMap]
        ELSE IF objectTemplateData.err THEN [err |-> TRUE, data |-> NilMap]
        ELSE [err |-> FALSE,
              data |-> deepMergeTemplates(parentTemplateData.data,
                                          objectTemplateData.data)]

buildTemplateData(obj, lookup) ==
    LET parentAnnotations ==
            LET pa == GetParentAnnotations(obj, lookup)
            IN  IF IsNil(pa) THEN EmptyFn ELSE pa.map
        parentTemplateData == parseTemplateData(parentAnnotations, TemplateAnnotation)
        objectTemplateData == parseTemplateData(obj.annotations, TemplateAnnotation)
    IN  IF parentTemplateData.err THEN [err |-> TRUE, data |-> NilMap]
        ELSE IF objectTemplateData.err THEN [err |-> TRUE, data |-> NilMap]
        ELSE [err |-> FALSE,
              data |-> deepMergeTemplates(parentTemplateData.data,
                                          objectTemplateData.data)]

\* slip: the template is applied before the handler of the kind
BuildEndpoint_TemplateFirst(obj, url, templateData) ==
    LET base == NewEndpoint(obj.name, url, DefaultInterval,
                            isGuardedEndpoint(templateData))
        templated == IF ~IsNil(templateData) THEN ApplyTemplate(base, templateData)
                     ELSE base
    IN  HandlerApplyTemplate(obj, templated)

\* lines 161-172 of handleEvent: the endpoint handed to the state manager
BuildEndpoint(obj, url, templateData) ==
    LET base == NewEndpoint(obj.name, url, DefaultInterval,
                            isGuardedEndpoint(templateData))
        kindApplied == HandlerApplyTemplate(obj, base)
    IN  IF ~IsNil(templateData) THEN ApplyTemplate(kindApplied, templateData)
        ELSE kindApplied

(***************************************************************************)
(* State.                                                                  *)
(***************************************************************************)
VARIABLES
    cfg,            \* the configuration the process was started with
    cluster,        \* which objects the cluster holds: "any" or "qualifying"
    endpoints,      \* Manager.endpoints: key -> Endpoint
    file,           \* the output file
    pc,             \* per controller: where its Run is
    listLen,        \* per controller: len(list.Items) of its initial list
    listIdx,        \* per controller: index of the next list item
    listSeen,       \* per controller: names of the list items handled so far
    cancelled,      \* the process context is done
    nev,            \* number of watch events delivered so far
    ret,            \* what the last state manager call returned and wrote
    last,           \* what the last controller step was handed and found
    ncalls,         \* MgrSpec: number of calls made so far
    seeded,         \* keys stored from a list item and not touched by a watch event
    listedAtWrite,  \* the controllers whose list had returned at the last write
    mu,             \* ConcSpec: Manager.mu, 0 or the goroutine that holds it
    tasks,          \* ConcSpec: per goroutine, where its manager call is
    seen,           \* ConcSpec: what a reader of the output file last saw
    call,           \* FnSpec: the function applied, its arguments, its result
    exited,         \* how the process has ended: "no" while it runs
    gateway,        \* EventSpec: the annotations the Gateway carries now
    gone            \* GoneSpec: keys of objects deleted while no watch was open

vars == <<cfg, cluster, endpoints, file, pc, listLen, listIdx, listSeen, cancelled, nev,
          ret, last, ncalls, seeded, listedAtWrite, mu, tasks, seen, call, exited,
          gateway, gone>>

mgrVars == <<endpoints, file, ret, listedAtWrite>>
ctlVars == <<pc, listLen, listIdx, listSeen>>
concVars == <<mu, tasks, seen>>
envVars == <<gateway, gone>>

(***************************************************************************)
(* State manager (internal/state).                                         *)
(***************************************************************************)
\* the fields yaml.Marshal emits for one endpoint: Guarded is yaml:"-", empty
\* strings, slices and maps are omitted, Extra is inlined
yamlMarshalEndpoint(e) ==
    [name |-> e.Name, group |-> e.Group, url |-> e.URL,
     conditions |-> IF IsNil(e.Conditions) THEN <<>> ELSE e.Conditions.seq,
     interval |-> e.Interval,
     dns |-> IF IsNil(e.DNS) THEN EmptyFn ELSE e.DNS.map,
     client |-> IF IsNil(e.Client) THEN EmptyFn ELSE e.Client.map,
     ui |-> IF IsNil(e.UI) THEN EmptyFn ELSE e.UI.map,
     extra |-> IF IsNil(e.Extra) THEN EmptyFn ELSE e.Extra.map]

\* slip: the less function compares the URLs
SortedKeyOrders_ByURL(m) ==
    LET n == Cardinality(DOMAIN m)
    IN  { s \in [1..n -> DOMAIN m] :
            /\ \A i, j \in 1..n : i # j => s[i] # s[j]
            /\ \A i \in 1..n : \A j \in 1..n :
                 i < j => ~StrLess(m[s[j]].URL, m[s[i]].URL) }

\* the orders of the keys of m that sort.Slice can leave behind: the map is
\* ranged over in any order and the sort is by Name only
SortedKeyOrders(m) ==
    LET n == Cardinality(DOMAIN m)
    IN  { s \in [1..n -> DOMAIN m] :
            /\ \A i, j \in 1..n : i # j => s[i] # s[j]
            /\ \A i \in 1..n : \A j \in 1..n :
                 i < j => ~StrLess(m[s[j]].Name, m[s[i]].Name) }

\* getCurrentState: every slice of endpoints it can return
getCurrentState(m) ==
    { [i \in 1..Len(s) |-> m[s[i]]] : s \in SortedKeyOrders(m) }

\* yaml.Marshal(map[string]any{"endpoints": endpoints})
yamlMarshal(state) == [i \in 1..Len(state) |-> yamlMarshalEndpoint(state[i])]

Serializations(m) == { yamlMarshal(st) : st \in getCurrentState(m) }

NoFile == [state |-> "absent", doc |-> <<>>]
PartialFile == [state |-> "partial", doc |-> <<>>]
DocFile(d) == [state |-> "doc", doc |-> d]

\* os.WriteFile: done, not opened, or failed after the truncation
WriteResults == {"ok", "unopened", "truncated"}

\* writeState on the map m, with the outcome res of os.WriteFile
writeState(m, res) ==
    /\ \/ res = "ok" /\ \E d \in Serializations(m) : file' = DocFile(d)
       \/ res = "unopened" /\ file' = file
       \/ res = "truncated" /\ file' = PartialFile
    /\ listedAtWrite' = IF res = "ok" THEN {k \in Kinds : pc[k] # "start"}
                        ELSE listedAtWrite

Put(m, key, e) == (key :> e) @@ m
Delete(m, key) == [k \in DOMAIN m \ {key} |-> m[k]]

NoEndpoint == NewEndpoint("", "", "", FALSE)

\* what a call of the state manager was handed (key, e, flag), what it
\* returned (changed) and what became of its write (write)
Returned(op, key, e, flag, changed, write) ==
    [op |-> op, key |-> key, e |-> e, flag |-> flag, changed |-> changed,
     write |-> write]

\* slip: no comparison with the stored endpoint
AddOrUpdate_NoCompare(key, e, write) ==
    /\ endpoints' = Put(endpoints, key, e)
    /\ IF write
       THEN \E res \in WriteResults :
               /\ writeState(Put(endpoints, key, e), res)
               /\ ret' = Returned("AddOrUpdate", key, e, write, TRUE, res)
       ELSE /\ UNCHANGED <<file, listedAtWrite>>
            /\ ret' = Returned("AddOrUpdate", key, e, write, TRUE, "none")

AddOrUpdate(key, e, write) ==
    IF key \in DOMAIN endpoints /\ endpoints[key] = e
    THEN /\ UNCHANGED <<endpoints, file, listedAtWrite>>
         /\ ret' = Returned("AddOrUpdate", key, e, write, FALSE, "none")
    ELSE /\ endpoints' = Put(endpoints, key, e)
         /\ IF write
            THEN \E res \in WriteResults :
                    /\ writeState(Put(endpoints, key, e), res)
                    /\ ret' = Returned("AddOrUpdate", key, e, write, TRUE, res)
            ELSE /\ UNCHANGED <<file, listedAtWrite>>
                 /\ ret' = Returned("AddOrUpdate", key, e, write, TRUE, "none")

\* slip: the map is changed and not written
Remove_NoWrite(key) ==
    IF key \notin DOMAIN endpoints
    THEN /\ UNCHANGED <<endpoints, file, listedAtWrite>>
         /\ ret' = Returned("Remove", key, NoEndpoint, FALSE, FALSE, "none")
    ELSE /\ endpoints' = Delete(endpoints, key)
         /\ UNCHANGED <<file, listedAtWrite>>
         /\ ret' = Returned("Remove", key, NoEndpoint, FALSE, TRUE, "none")

Remove(key) ==
    IF key \notin DOMAIN endpoints
    THEN /\ UNCHANGED <<endpoints, file, listedAtWrite>>
         /\ ret' = Returned("Remove", key, NoEndpoint, FALSE, FALSE, "none")
    ELSE /\ endpoints' = Delete(endpoints, key)
         /\ \E res \in WriteResults :
               /\ writeState(Delete(endpoints, key), res)
               /\ ret' = Returned("Remove", key, NoEndpoint, FALSE, TRUE, res)

ForceWrite ==
    /\ UNCHANGED endpoints
    /\ \E res \in WriteResults :
          /\ writeState(endpoints, res)
          /\ ret' = Returned("ForceWrite", "", NoEndpoint, FALSE, FALSE, res)

NoReturn == Returned("none", "", NoEndpoint, FALSE, FALSE, "none")

\* a step that does not call the state manager
NoCall ==
    /\ UNCHANGED <<endpoints, file, listedAtWrite>>
    /\ ret' = NoReturn

\* a goroutine that is in no call of the state manager
IdleTask ==
    [pc |-> "idle", op |-> "none", key |-> "", e |-> NoEndpoint,
     write |-> FALSE, changed |-> FALSE, snap |-> <<>>, wres |-> "none"]

Tasks == 1..MaxTasks

\* no function applied
NoApply == [fn |-> "none", args |-> <<>>, out |-> <<>>]

\* the Gateway's annotations where a specification leaves them open: every
\* Get of the parent may then answer anything
Untracked == "untracked"

\* nobody calls the state manager concurrently, reads the file or applies a
\* function on its own
Quiet ==
    /\ mu = 0
    /\ tasks = [t \in Tasks |-> IdleTask]
    /\ seen = NoFile
    /\ call = NoApply

(***************************************************************************)
(* Controller (internal/controller).                                       *)
(***************************************************************************)
removeFromState(key) == Remove(key)

\* slip: a Deleted event is handled like a Modified one
handleEvent_NoDeletedCheck(k, obj, eventType, skipWrite, lookup) ==
    LET key == KeyOf(obj, k)
        url == ExtractURL(obj)
        templateData == buildTemplateData(obj, lookup)
    IN  IF ~ShouldProcess(obj, cfg)
        THEN removeFromState(key)
        ELSE IF url = "" THEN NoCall
        ELSE IF isEndpointDisabled(obj.annotations) THEN removeFromState(key)
        ELSE IF templateData.err THEN NoCall
        ELSE AddOrUpdate(key, BuildEndpoint(obj, url, templateData.data),
                         skipWrite)

\* slip: an object without a URL loses its endpoint
handleEvent_RemoveOnNoURL(k, obj, eventType, skipWrite, lookup) ==
    LET key == KeyOf(obj, k)
        url == ExtractURL(obj)
        templateData == buildTemplateData(obj, lookup)
    IN  IF ~ShouldProcess(obj, cfg) \/ eventType = "DELETED"
        THEN removeFromState(key)
        ELSE IF url = "" THEN removeFromState(key)
        ELSE IF isEndpointDisabled(obj.annotations) THEN removeFromState(key)
        ELSE IF templateData.err THEN NoCall
        ELSE AddOrUpdate(key, BuildEndpoint(obj, url, templateData.data),
                         skipWrite)

\* handleEvent for the typed object obj; lookup is the API server's answer
\* to the Get of the parent
\* slip: an endpoint is stored under the name it carries
handleEvent_KeyFromEndpoint(k, obj, eventType, skipWrite, lookup) ==
    LET key == KeyOf(obj, k)
        url == ExtractURL(obj)
        templateData == buildTemplateData(obj, lookup)
        e == BuildEndpoint(obj, url, templateData.data)
    IN  IF ~ShouldProcess(obj, cfg) \/ eventType = "DELETED"
        THEN removeFromState(key)
        ELSE IF url = "" THEN NoCall
        ELSE IF isEndpointDisabled(obj.annotations) THEN removeFromState(key)
        ELSE IF templateData.err THEN NoCall
        ELSE AddOrUpdate(KeyOf([obj EXCEPT !.name = e.Name], k), e, skipWrite)

handleEvent(k, obj, eventType, skipWrite, lookup) ==
    LET key == KeyOf(obj, k)
        url == ExtractURL(obj)
        templateData == buildTemplateData(obj, lookup)
    IN  IF ~ShouldProcess(obj, cfg) \/ eventType = "DELETED"
        THEN removeFromState(key)
        ELSE IF url = "" THEN NoCall
        ELSE IF isEndpointDisabled(obj.annotations) THEN removeFromState(key)
        ELSE IF templateData.err THEN NoCall
        ELSE AddOrUpdate(key, BuildEndpoint(obj, url, templateData.data),
                         skipWrite)

\* c.convert
convert(raw) == IF raw.ok THEN [err |-> FALSE, obj |-> raw.obj]
                ELSE [err |-> TRUE]

\* what a step was handed: the event and what the handler's checks say
\* about its object
AnnotationValue(annotations, annotationKey) ==
    IF annotationKey \in DOMAIN annotations THEN annotations[annotationKey]
    ELSE "<absent>"

ParentAnnotationsOf(obj, lookup) ==
    LET pa == GetParentAnnotations(obj, lookup)
    IN  IF IsNil(pa) THEN EmptyFn ELSE pa.map

NoEvent(k, op) ==
    [ctl |-> k, op |-> op, deleted |-> FALSE, key |-> "", name |-> "",
     namespace |-> "", conv |-> FALSE,
     should |-> FALSE, hasURL |-> FALSE, enabled |-> "<absent>",
     objErr |-> FALSE, parentErr |-> FALSE, parentEnabled |-> "<absent>",
     skipWrite |-> FALSE,
     final |-> FALSE]

Unconverted(k, op, eventType, final) ==
    [NoEvent(k, op) EXCEPT !.deleted = (eventType = "DELETED"), !.final = final]

Observed(k, op, obj, eventType, skipWrite, lookup, final) ==
    [ctl |-> k, op |-> op, deleted |-> (eventType = "DELETED"),
     key |-> KeyOf(obj, k), name |-> obj.name, namespace |-> obj.namespace,
     conv |-> TRUE, should |-> ShouldProcess(obj, cfg),
     hasURL |-> ExtractURL(obj) # "",
     enabled |-> AnnotationValue(obj.annotations, EnabledAnnotation),
     objErr |-> parseTemplateData(obj.annotations, TemplateAnnotation).err,
     parentErr |-> parseTemplateData(ParentAnnotationsOf(obj, lookup),
                                     TemplateAnnotation).err,
     parentEnabled |-> AnnotationValue(ParentAnnotationsOf(obj, lookup),
                                       EnabledAnnotation),
     skipWrite |-> skipWrite, final |-> final]

\* the answers the Get of the parent can have: handleEvent gets as far as
\* buildTemplateData, and the parent extractor as far as the Get, or there is
\* no answer
LookupsFor(obj, eventType) ==
    IF /\ eventType # "DELETED"
       /\ ShouldProcess(obj, cfg)
       /\ ExtractURL(obj) # ""
       /\ ~isEndpointDisabled(obj.annotations)
       /\ HasParentExtractor(obj.kind)
       /\ Len(obj.parentRefs) > 0
    THEN ParentLookups ELSE {[err |-> TRUE]}

KeysOfKind(k) == { n \o "." \o ns \o "." \o k : n \in Names, ns \in Namespaces }

Min(a, b) == IF a < b THEN a ELSE b

\* the objects a list can return: one item per name and namespace
ObjectIds(raws) == { <<raw.obj.name, raw.obj.namespace>> : raw \in {r \in raws : r.ok} }

\* the raw objects the API server can hand out for kind k
ClusterObjects(k) ==
    IF cluster = "any" THEN RawObjects(k) ELSE QualifyingObjects(k)

\* main, lines 46-57: the controllers that are registered
Registered(k, c) ==
    LET defaultControllers == ~c.EnableHTTPRoute /\ ~c.EnableService
    IN  IF k = "httproutes"
        THEN c.EnableHTTPRoute \/ c.AutoHTTPRoute \/ defaultControllers
        ELSE c.EnableService \/ c.AutoService \/ defaultControllers

\* Run, line 51, and initialList, line 69: the List call
ListCall(k) ==
    /\ exited = "no"
    /\ pc[k] = "start"
    /\ \/ /\ pc' = [pc EXCEPT ![k] = "failed"]
          /\ UNCHANGED <<listLen, listIdx>>
       \/ \E n \in 0..Min(MaxList, Cardinality(ObjectIds(ClusterObjects(k)))) :
             /\ listLen' = [listLen EXCEPT ![k] = n]
             /\ listIdx' = [listIdx EXCEPT ![k] = 0]
             /\ pc' = [pc EXCEPT ![k] = IF n = 0 THEN "watch" ELSE "listing"]
    /\ NoCall
    /\ last' = NoEvent(k, "listcall")
    /\ UNCHANGED <<concVars, envVars, call, exited, cfg, cluster, listSeen, cancelled, nev, ncalls, seeded>>

\* initialList, lines 74-84: one iteration of the loop over list.Items
ListItem(k) ==
    /\ exited = "no"
    /\ pc[k] = "listing"
    /\ LET i == listIdx[k]
           isNotLast == i # listLen[k] - 1
       IN  /\ \E raw \in ClusterObjects(k) :
                IF convert(raw).err
                THEN /\ NoCall
                     /\ last' = Unconverted(k, "list", "ADDED", ~isNotLast)
                     /\ listSeen' = [listSeen EXCEPT
                           ![k] = IF isNotLast THEN @ ELSE {}]
                     /\ UNCHANGED seeded
                ELSE LET obj == convert(raw).obj
                     IN  /\ <<obj.name, obj.namespace>> \notin listSeen[k]
                         /\ \E lookup \in LookupsFor(obj, "ADDED") :
                              /\ handleEvent(k, obj, "ADDED", isNotLast, lookup)
                              /\ last' = Observed(k, "list", obj, "ADDED",
                                                  isNotLast, lookup, ~isNotLast)
                         /\ listSeen' = [listSeen EXCEPT
                               ![k] = IF isNotLast
                                      THEN @ \cup {<<obj.name, obj.namespace>>}
                                      ELSE {}]
                         /\ seeded' = IF KeyOf(obj, k) \in DOMAIN endpoints'
                                      THEN seeded \cup {KeyOf(obj, k)}
                                      ELSE seeded
           \* the list and its index are gone when initialList returns
           /\ listIdx' = [listIdx EXCEPT ![k] = IF isNotLast THEN i + 1 ELSE 0]
           /\ listLen' = [listLen EXCEPT ![k] = IF isNotLast THEN @ ELSE 0]
           /\ pc' = [pc EXCEPT ![k] = IF isNotLast THEN "listing" ELSE "watch"]
    /\ UNCHANGED <<concVars, envVars, call, exited, cfg, cluster, cancelled, nev, ncalls>>

\* slip: the watch is opened while the items of the list are being handled
OpenWatch_DuringList(k) ==
    /\ exited = "no"
    /\ pc[k] \in {"listing", "watch"}
    /\ \E ok \in BOOLEAN :
          pc' = [pc EXCEPT ![k] = IF ok THEN "watching" ELSE "backoff"]
    /\ NoCall
    /\ last' = NoEvent(k, "open")
    /\ UNCHANGED <<concVars, envVars, call, exited, cfg, cluster, listLen, listIdx, listSeen, cancelled, nev, ncalls, seeded>>

\* watchLoop, line 90: the Watch call
OpenWatch(k) ==
    /\ exited = "no"
    /\ pc[k] = "watch"
    /\ \E ok \in BOOLEAN :
          pc' = [pc EXCEPT ![k] = IF ok THEN "watching" ELSE "backoff"]
    /\ NoCall
    /\ last' = NoEvent(k, "open")
    /\ UNCHANGED <<concVars, envVars, call, exited, cfg, cluster, listLen, listIdx, listSeen, cancelled, nev, ncalls, seeded>>

\* slip: an event that does not convert ends the watch loop
WatchEvent_ReturnOnError(k) ==
    /\ exited = "no"
    /\ pc[k] = "watching"
    /\ nev < MaxEvents
    /\ nev' = nev + 1
    /\ \E eventType \in EventTypes, raw \in ClusterObjects(k) :
          IF convert(raw).err
          THEN /\ NoCall
               /\ last' = Unconverted(k, "watch", eventType, FALSE)
               /\ seeded' = seeded \ KeysOfKind(k)
               /\ pc' = [pc EXCEPT ![k] = "backoff"]
          ELSE LET obj == convert(raw).obj
               IN  /\ \E lookup \in LookupsFor(obj, eventType) :
                        /\ handleEvent(k, obj, eventType, FALSE, lookup)
                        /\ last' = Observed(k, "watch", obj, eventType, FALSE,
                                            lookup, FALSE)
                   /\ seeded' = seeded \ {KeyOf(obj, k)}
                   /\ KeyOf(obj, k) \notin gone
                   /\ UNCHANGED pc
    /\ UNCHANGED <<concVars, envVars, call, exited, cfg, cluster, listLen, listIdx, listSeen, cancelled, ncalls>>

\* watchLoop, lines 100-104, and processEvent: one event off the channel; the
\* API server sends no event about an object that no longer exists
WatchEvent(k) ==
    /\ exited = "no"
    /\ pc[k] = "watching"
    /\ nev < MaxEvents
    /\ nev' = nev + 1
    /\ \E eventType \in EventTypes, raw \in ClusterObjects(k) :
          IF convert(raw).err
          THEN /\ NoCall
               /\ last' = Unconverted(k, "watch", eventType, FALSE)
               /\ seeded' = seeded \ KeysOfKind(k)
          ELSE LET obj == convert(raw).obj
               IN  /\ \E lookup \in LookupsFor(obj, eventType) :
                        /\ handleEvent(k, obj, eventType, FALSE, lookup)
                        /\ last' = Observed(k, "watch", obj, eventType, FALSE,
                                            lookup, FALSE)
                   /\ seeded' = seeded \ {KeyOf(obj, k)}
                   /\ KeyOf(obj, k) \notin gone
    /\ UNCHANGED <<concVars, envVars, call, exited, cfg, cluster, pc, listLen, listIdx, listSeen, cancelled, ncalls>>

\* watchLoop, lines 101-103: the channel is closed
WatchClosed(k) ==
    /\ exited = "no"
    /\ pc[k] = "watching"
    /\ pc' = [pc EXCEPT ![k] = "backoff"]
    /\ NoCall
    /\ last' = NoEvent(k, "closed")
    /\ UNCHANGED <<concVars, envVars, call, exited, cfg, cluster, listLen, listIdx, listSeen, cancelled, nev, ncalls, seeded>>

\* watchLoop, lines 98-99: the context is done
WatchDone(k) ==
    /\ exited = "no"
    /\ pc[k] = "watching"
    /\ cancelled
    /\ pc' = [pc EXCEPT ![k] = "backoff"]
    /\ NoCall
    /\ last' = NoEvent(k, "done")
    /\ UNCHANGED <<concVars, envVars, call, exited, cfg, cluster, listLen, listIdx, listSeen, cancelled, nev, ncalls, seeded>>

\* slip: after the backoff Run starts over with the initial list
BackoffElapsed_Relist(k) ==
    /\ exited = "no"
    /\ pc[k] = "backoff"
    /\ ~cancelled
    /\ pc' = [pc EXCEPT ![k] = "start"]
    /\ NoCall
    /\ last' = NoEvent(k, "elapsed")
    /\ UNCHANGED <<concVars, envVars, call, exited, cfg, cluster, listLen, listIdx, listSeen, cancelled, nev, ncalls, seeded>>

\* Run, line 63: the backoff has elapsed
BackoffElapsed(k) ==
    /\ exited = "no"
    /\ pc[k] = "backoff"
    /\ ~cancelled
    /\ pc' = [pc EXCEPT ![k] = "watch"]
    /\ NoCall
    /\ last' = NoEvent(k, "elapsed")
    /\ UNCHANGED <<concVars, envVars, call, exited, cfg, cluster, listLen, listIdx, listSeen, cancelled, nev, ncalls, seeded>>

\* slip: Run hands the error of the context back when it is done
RunReturn_CtxErr(k) ==
    /\ exited = "no"
    /\ pc[k] = "backoff"
    /\ cancelled
    /\ pc' = [pc EXCEPT ![k] = "failed"]
    /\ NoCall
    /\ last' = NoEvent(k, "return")
    /\ UNCHANGED <<concVars, envVars, call, exited, cfg, cluster, listLen, listIdx, listSeen, cancelled, nev, ncalls, seeded>>

\* Run, lines 61-62: the context is done
RunReturn(k) ==
    /\ exited = "no"
    /\ pc[k] = "backoff"
    /\ cancelled
    /\ pc' = [pc EXCEPT ![k] = "stopped"]
    /\ NoCall
    /\ last' = NoEvent(k, "return")
    /\ UNCHANGED <<concVars, envVars, call, exited, cfg, cluster, listLen, listIdx, listSeen, cancelled, nev, ncalls, seeded>>

\* SIGINT or SIGTERM
Cancel ==
    /\ exited = "no"
    /\ ~cancelled
    /\ cancelled' = TRUE
    /\ NoCall
    /\ last' = NoEvent("", "cancel")
    /\ UNCHANGED <<concVars, envVars, call, exited, cfg, cluster, pc, listLen, listIdx, listSeen, nev, ncalls, seeded>>

\* runControllers returns and main ends the process: with the error a Run
\* has sent to errChan, with ctx.Err() when the context is done, or with nil
\* when every Run has returned nil and errChan is closed
runControllers ==
    /\ exited = "no"
    /\ \/ /\ \E k \in Kinds : pc[k] = "failed"
          /\ exited' = "controller error"
       \/ /\ cancelled
          /\ exited' = "context error"
       \/ /\ \A k \in Kinds : pc[k] \in {"off", "stopped"}
          /\ \E k \in Kinds : pc[k] = "stopped"
          /\ exited' = "success"
    /\ NoCall
    /\ last' = NoEvent("", "exit")
    /\ UNCHANGED <<concVars, envVars, call, cfg, cluster, pc, listLen, listIdx, listSeen, cancelled, nev, ncalls, seeded>>

\* os.Exit(1) after "Controller execution failed", or the return of main
ExitStatus == CASE exited \in {"controller error", "context error"} -> 1
                [] exited = "success" -> 0
                [] OTHER -> -1

InitWith(c, population) ==
    /\ cfg = c
    /\ cluster = population
    /\ endpoints = EmptyFn
    /\ file = NoFile
    /\ pc = [k \in Kinds |-> IF Registered(k, c) THEN "start" ELSE "off"]
    /\ listLen = [k \in Kinds |-> 0]
    /\ listIdx = [k \in Kinds |-> 0]
    /\ listSeen = [k \in Kinds |-> {}]
    /\ cancelled = FALSE
    /\ nev = 0
    /\ ncalls = 0
    /\ ret = NoReturn
    /\ last = NoEvent("", "init")
    /\ seeded = {}
    /\ listedAtWrite = {}
    /\ exited = "no"
    /\ gateway = Untracked
    /\ gone = {}
    /\ Quiet

\* one controller, every kind of object
Init == InitWith(RouteConfig, "any")

\* two controllers after a restart, in a cluster of qualifying objects
InitRestart ==
    InitWith(RouteAndServiceConfig, "qualifying")

(***************************************************************************)
(* The state manager driven directly, as in its unit tests.                *)
(***************************************************************************)
TestKeys == {"test.default.services", "test2.default.services"}

TestEndpoints ==
    { NewEndpoint("test-endpoint", "https://example.com", "1m", FALSE),
      NewEndpoint("test-endpoint", "https://updated.example.com", "30s", FALSE),
      NewEndpoint("test-endpoint-2", "https://example2.com", "1m", FALSE) }

CallAddOrUpdate ==
    /\ ncalls < MaxCalls
    /\ ncalls' = ncalls + 1
    /\ \E key \in TestKeys, e \in TestEndpoints, write \in BOOLEAN :
          AddOrUpdate(key, e, write)
    /\ last' = NoEvent("test", "call")
    /\ UNCHANGED <<concVars, envVars, call, exited, cfg, cluster, pc, listLen, listIdx, listSeen, cancelled, nev,
                   seeded>>

CallRemove ==
    /\ ncalls < MaxCalls
    /\ ncalls' = ncalls + 1
    /\ \E key \in TestKeys : Remove(key)
    /\ last' = NoEvent("test", "call")
    /\ UNCHANGED <<concVars, envVars, call, exited, cfg, cluster, pc, listLen, listIdx, listSeen, cancelled, nev,
                   seeded>>

CallForceWrite ==
    /\ ncalls < MaxCalls
    /\ ncalls' = ncalls + 1
    /\ ForceWrite
    /\ last' = NoEvent("test", "call")
    /\ UNCHANGED <<concVars, envVars, call, exited, cfg, cluster, pc, listLen, listIdx, listSeen, cancelled, nev,
                   seeded>>

\* NewManager, with no controller registered
MgrInitWith(gw) ==
    /\ cfg = RouteConfig
    /\ cluster = "any"
    /\ endpoints = EmptyFn
    /\ file = NoFile
    /\ pc = [k \in Kinds |-> "off"]
    /\ listLen = [k \in Kinds |-> 0]
    /\ listIdx = [k \in Kinds |-> 0]
    /\ listSeen = [k \in Kinds |-> {}]
    /\ cancelled = FALSE
    /\ nev = 0
    /\ ncalls = 0
    /\ ret = NoReturn
    /\ last = NoEvent("test", "init")
    /\ seeded = {}
    /\ listedAtWrite = {}
    /\ exited = "no"
    /\ gateway = gw
    /\ gone = {}
    /\ Quiet

MgrInit == MgrInitWith(Untracked)

MgrNext == CallAddOrUpdate \/ CallRemove \/ CallForceWrite

MgrSpec == MgrInit /\ [][MgrNext]_vars

(***************************************************************************)
(* The state manager called from several goroutines, one statement at a   *)
(* time.  os.WriteFile opens the file with O_TRUNC and then writes.        *)
(***************************************************************************)
others == <<cfg, cluster, pc, listLen, listIdx, listSeen, cancelled, nev,
            ncalls, seeded, ret, last, listedAtWrite, call, exited, envVars>>

SetTask(t, r) == tasks' = [tasks EXCEPT ![t] = r]

\* a goroutine calls AddOrUpdate(key, e, write)
BeginAddOrUpdate(t) ==
    /\ tasks[t].pc = "idle"
    /\ \E key \in TestKeys, e \in TestEndpoints, write \in BOOLEAN :
          SetTask(t, [IdleTask EXCEPT !.pc = "lock", !.op = "AddOrUpdate",
                                      !.key = key, !.e = e, !.write = write])
    /\ UNCHANGED <<others, endpoints, file, mu, seen>>

\* a goroutine calls Remove(key)
BeginRemove(t) ==
    /\ tasks[t].pc = "idle"
    /\ \E key \in TestKeys :
          SetTask(t, [IdleTask EXCEPT !.pc = "lock", !.op = "Remove",
                                      !.key = key])
    /\ UNCHANGED <<others, endpoints, file, mu, seen>>

\* a goroutine calls ForceWrite()
BeginForceWrite(t) ==
    /\ tasks[t].pc = "idle"
    /\ SetTask(t, [IdleTask EXCEPT !.pc = "lock", !.op = "ForceWrite"])
    /\ UNCHANGED <<others, endpoints, file, mu, seen>>

\* slip: the methods do not take the mutex
Lock_NoMutex(t) ==
    /\ tasks[t].pc = "lock"
    /\ mu' = t
    /\ SetTask(t, [tasks[t] EXCEPT
          !.pc = IF tasks[t].op = "ForceWrite" THEN "marshal" ELSE "check"])
    /\ UNCHANGED <<others, endpoints, file, seen>>

\* m.mu.Lock()
Lock(t) ==
    /\ tasks[t].pc = "lock"
    /\ mu = 0
    /\ mu' = t
    /\ SetTask(t, [tasks[t] EXCEPT
          !.pc = IF tasks[t].op = "ForceWrite" THEN "marshal" ELSE "check"])
    /\ UNCHANGED <<others, endpoints, file, seen>>

\* AddOrUpdate, lines 36-39, and Remove, lines 56-59: the lookup of the key
Check(t) ==
    /\ tasks[t].pc = "check"
    /\ LET r == tasks[t]
           same == IF r.op = "AddOrUpdate"
                   THEN r.key \in DOMAIN endpoints /\ endpoints[r.key] = r.e
                   ELSE r.key \notin DOMAIN endpoints
       IN  SetTask(t, [r EXCEPT !.pc = IF same THEN "unlock" ELSE "store"])
    /\ UNCHANGED <<others, endpoints, file, mu, seen>>

\* slip: the mutex is released before writeState is called
Store_UnlockBeforeWrite(t) ==
    /\ tasks[t].pc = "store"
    /\ LET r == tasks[t]
       IN  /\ endpoints' = IF r.op = "AddOrUpdate"
                           THEN Put(endpoints, r.key, r.e)
                           ELSE Delete(endpoints, r.key)
           /\ SetTask(t, [r EXCEPT
                 !.changed = TRUE,
                 !.pc = IF r.op = "Remove" \/ r.write THEN "marshal"
                        ELSE "unlock"])
    /\ mu' = 0
    /\ UNCHANGED <<others, file, seen>>

\* AddOrUpdate, line 41, and Remove, line 61: the change of the map
Store(t) ==
    /\ tasks[t].pc = "store"
    /\ LET r == tasks[t]
       IN  /\ endpoints' = IF r.op = "AddOrUpdate"
                           THEN Put(endpoints, r.key, r.e)
                           ELSE Delete(endpoints, r.key)
           /\ SetTask(t, [r EXCEPT
                 !.changed = TRUE,
                 !.pc = IF r.op = "Remove" \/ r.write THEN "marshal"
                        ELSE "unlock"])
    /\ UNCHANGED <<others, file, mu, seen>>

\* writeState, lines 75-81: getCurrentState and yaml.Marshal
Marshal(t) ==
    /\ tasks[t].pc = "marshal"
    /\ \E d \in Serializations(endpoints) :
          SetTask(t, [tasks[t] EXCEPT !.snap = d, !.pc = "open"])
    /\ UNCHANGED <<others, endpoints, file, mu, seen>>

\* writeState, line 83: os.WriteFile opens the file and truncates it
OpenFile(t) ==
    /\ tasks[t].pc = "open"
    /\ \/ /\ file' = PartialFile
          /\ SetTask(t, [tasks[t] EXCEPT !.pc = "write"])
       \/ /\ file' = file
          /\ SetTask(t, [tasks[t] EXCEPT !.wres = "unopened", !.pc = "unlock"])
    /\ UNCHANGED <<others, endpoints, mu, seen>>

\* writeState, line 83: os.WriteFile writes the bytes and closes the file
WriteData(t) ==
    /\ tasks[t].pc = "write"
    /\ \/ /\ file' = DocFile(tasks[t].snap)
          /\ SetTask(t, [tasks[t] EXCEPT !.wres = "ok", !.pc = "unlock"])
       \/ /\ file' = file
          /\ SetTask(t, [tasks[t] EXCEPT !.wres = "truncated", !.pc = "unlock"])
    /\ UNCHANGED <<others, endpoints, mu, seen>>

\* the deferred m.mu.Unlock() and the return
Unlock(t) ==
    /\ tasks[t].pc = "unlock"
    /\ mu' = 0
    /\ SetTask(t, [tasks[t] EXCEPT !.pc = "done"])
    /\ UNCHANGED <<others, endpoints, file, seen>>

\* another process reads the output file
ReadFile ==
    /\ seen # file
    /\ seen' = file
    /\ UNCHANGED <<others, endpoints, file, mu, tasks>>

ConcNext ==
    \/ \E t \in Tasks : BeginAddOrUpdate(t)
    \/ \E t \in Tasks : BeginRemove(t)
    \/ \E t \in Tasks : BeginForceWrite(t)
    \/ \E t \in Tasks : Lock(t)
    \/ \E t \in Tasks : Check(t)
    \/ \E t \in Tasks : Store(t)
    \/ \E t \in Tasks : Marshal(t)
    \/ \E t \in Tasks : OpenFile(t)
    \/ \E t \in Tasks : WriteData(t)
    \/ \E t \in Tasks : Unlock(t)
    \/ ReadFile

ConcSpec == MgrInit /\ [][ConcNext]_vars

(***************************************************************************)
(* The functions of the pipeline applied on their own.                     *)
(***************************************************************************)
\* the configurations the flags of Load can give
Configs ==
    [EnableHTTPRoute : {TRUE}, EnableService : {FALSE},
     AutoHTTPRoute : BOOLEAN, AutoService : BOOLEAN,
     GatewayName : {"", "gw"}]

Applied(fn, args, out) == [fn |-> fn, args |-> args, out |-> out]

fnOthers == <<cfg, cluster, endpoints, file, pc, listLen, listIdx, listSeen,
              cancelled, nev, ret, last, ncalls, seeded, listedAtWrite,
              concVars, exited, envVars>>

ApplyShouldProcess ==
    /\ call = NoApply
    /\ \E kind \in Kinds, c \in Configs :
          \E obj \in TypedObjects(kind) :
             call' = Applied("ShouldProcess", <<obj, c>>, ShouldProcess(obj, c))
    /\ UNCHANGED fnOthers

\* the values a template holds that are not maps
TemplateLeaves == {Num(1), Num(2), MkSeq(<<Str("x")>>)}

\* the template maps of depth d at most: key "a" holds a leaf or a map, key
\* "b" a leaf, and either key may be missing
RECURSIVE TemplateMaps(_)
TemplateMaps(d) ==
    IF d = 0 THEN {}
    ELSE LET underA == TemplateLeaves \cup TemplateMaps(d - 1)
             withA == {EmptyFn} \cup {"a" :> v : v \in underA}
             withB == {EmptyFn} \cup {"b" :> v : v \in TemplateLeaves}
         IN  { MkMap(fa @@ fb) : fa \in withA, fb \in withB }

\* what parseTemplateData can hand to deepMergeTemplates
TemplateTrees == {NilMap} \cup TemplateMaps(MaxDepth)

ApplyDeepMerge ==
    /\ call = NoApply
    /\ \E parent \in TemplateTrees, child \in TemplateTrees :
          call' = Applied("deepMergeTemplates", <<parent, child>>,
                          deepMergeTemplates(parent, child))
    /\ UNCHANGED fnOthers

\* the objects of kind that pass ShouldProcess and have a URL, with one
\* annotation of their own
TemplatedObjects(kind) ==
    { obj \in TypedObjects(kind) :
        /\ obj.name = "a"
        /\ IF kind = "httproutes"
           THEN obj.hostnames # <<>> /\ obj.parentRefs # <<>>
           ELSE obj.ports # <<>> } \cup
    { [obj EXCEPT !.annotations = TemplateAnnotation :> text] :
        obj \in { o \in TypedObjects(kind) :
                    /\ o.name = "a" /\ o.annotations = EmptyFn
                    /\ IF kind = "httproutes"
                       THEN o.hostnames # <<>> /\ o.parentRefs # <<>>
                       ELSE o.ports # <<>> },
        text \in YamlTexts }

\* the answers to the Get of a parent, the parent carrying a template
TemplatedLookups ==
    {[err |-> TRUE]} \cup
    [err : {FALSE}, annotations : {TemplateAnnotation :> text : text \in YamlTexts}]

\* handleEvent called once for an Added or Modified object
ApplyHandleEvent ==
    /\ call = NoApply
    /\ \E kind \in Kinds, eventType \in {"ADDED", "MODIFIED"}, skipWrite \in BOOLEAN :
          \E obj \in TemplatedObjects(kind) :
             \E lookup \in IF HasParentExtractor(kind) THEN TemplatedLookups
                            ELSE {[err |-> TRUE]} :
                /\ handleEvent(kind, obj, eventType, skipWrite, lookup)
                /\ call' = Applied("handleEvent", <<kind, obj, lookup>>, ret')
    /\ UNCHANGED <<cfg, cluster, pc, listLen, listIdx, listSeen, cancelled, nev,
                   last, ncalls, seeded, concVars, exited, envVars>>

\* endpoints as the unit tests of the endpoint package build them: the
\* minimal one, plain and guarded, and one with every field filled in
SampleEndpoints ==
    { NewEndpoint("test", "https://example.com", "1m", FALSE),
      NewEndpoint("test", "https://example.com", "1m", TRUE),
      [Name |-> "test", Group |-> "apps", URL |-> "https://example.com",
       Conditions |-> MkSeq(<<"[STATUS] == 200">>), Interval |-> "1m",
       DNS |-> MkMap("query-type" :> Str("AAAA")),
       Client |-> MkMap(("timeout" :> Str("5s")) @@
                        ("oauth2" :> MkMap(("a" :> Str("old")) @@
                                           ("b" :> Str("keep"))))),
       UI |-> NilMap, Guarded |-> TRUE,
       Extra |-> MkMap("custom" :> Str("kept"))] }

ApplyHandlerTemplate ==
    /\ call = NoApply
    /\ \E kind \in Kinds, e \in SampleEndpoints :
          \E obj \in TypedObjects(kind) :
             call' = Applied("Handler.ApplyTemplate", <<obj, e>>,
                             HandlerApplyTemplate(obj, e))
    /\ UNCHANGED fnOthers

\* the values a template can hold under a key, of the type the key wants
\* and of other types
OverrideValues(key) ==
    CASE key \in {"name", "group", "url", "interval"} ->
             {Str("30s"), Str(""), Num(123)}
      [] key = "conditions" ->
             {Str("single-condition"), Strings(<<"cond1", "cond2">>),
              MkSeq(<<Str("[STATUS]==200"), Num(42), Str("[RESPONSE_TIME]<500")>>),
              MkSeq(<<Num(42)>>), Num(42)}
      [] key \in {"dns", "client", "ui"} ->
             {MkMap("key1" :> Str("value1")),
              MkMap("oauth2" :> MkMap("a" :> Str("new"))), Str("invalid")}
      [] key = "guarded" -> {Bool(TRUE), Bool(FALSE), Str("true")}
      [] OTHER -> {MkSeq(<<MkMap("type" :> Str("slack"))>>), Num(1)}

\* the keys of a template: the recognized ones and one that goes to Extra
TemplateKeys == ReservedKeys \cup {"alerts"}

\* the maps that give at most n of the keys a value
RECURSIVE PartialMaps(_, _)
PartialMaps(keys, n) ==
    IF n = 0 \/ keys = {} THEN {EmptyFn}
    ELSE LET key == CHOOSE k \in keys : TRUE
         IN  PartialMaps(keys \ {key}, n) \cup
             { (key :> v) @@ f : v \in OverrideValues(key),
                                 f \in PartialMaps(keys \ {key}, n - 1) }

\* what Endpoint.ApplyTemplate can be handed
EndpointTemplates ==
    {NilMap} \cup { MkMap(f) : f \in PartialMaps(TemplateKeys, MaxKeys) }

ApplyEndpointTemplate ==
    /\ call = NoApply
    /\ \E e \in SampleEndpoints, t \in EndpointTemplates :
          call' = Applied("Endpoint.ApplyTemplate", <<e, t>>, ApplyTemplate(e, t))
    /\ UNCHANGED fnOthers

\* the same template applied a second time to the endpoint
ReapplyEndpointTemplate ==
    /\ call = NoApply
    /\ \E e \in SampleEndpoints, t \in EndpointTemplates :
          call' = Applied("Endpoint.ApplyTemplate twice", <<e, t>>,
                          <<ApplyTemplate(e, t),
                            ApplyTemplate(ApplyTemplate(e, t), t)>>)
    /\ UNCHANGED fnOthers

\* the hostnames of the routes TestURLExtractor builds, and an https one
TestHostnameLists ==
    {<<>>,
     <<"api.example.com", "api2.example.com">>,
     <<"http://already-prefixed.com">>,
     <<"https://secure.example.com", "api.example.com">>,
     <<"http-test.domain.com">>}

\* urlExtractor called on an HTTPRoute
ApplyURLExtractor ==
    /\ call = NoApply
    /\ \E route \in TypedObjects("httproutes"), hostnames \in TestHostnameLists :
          LET obj == [route EXCEPT !.hostnames = hostnames]
          IN  call' = Applied("urlExtractor", <<obj>>, urlExtractor(obj))
    /\ UNCHANGED fnOthers

FnNext ==
    \/ ApplyURLExtractor
    \/ ApplyShouldProcess
    \/ ApplyDeepMerge
    \/ ApplyHandleEvent
    \/ ApplyHandlerTemplate
    \/ ApplyEndpointTemplate
    \/ ReapplyEndpointTemplate

FnSpec == MgrInit /\ [][FnNext]_vars

(***************************************************************************)
(* EventSpec: the events of one HTTPRoute and one Service, handled one     *)
(* after the other, under a Gateway whose annotations change.              *)
(***************************************************************************)
\* the templates the objects and the Gateway carry
EventTexts == {"interval: 30s", "name: web", "guarded: true", "guarded: false"}

\* the objects named a that pass ShouldProcess and have a URL, enabled or
\* disabled by annotation or carrying a template
EventObjects(kind) ==
    { obj \in TemplatedObjects(kind) :
        \/ obj.annotations \in {EnabledAnnotation :> "true", EnabledAnnotation :> "false"}
        \/ \E text \in EventTexts : obj.annotations = TemplateAnnotation :> text }

\* the annotations the Gateway can carry
GatewayAnnotations ==
    {EmptyFn, TemplateAnnotation :> "interval: 30s", TemplateAnnotation :> "name: web"}

\* the answers to the Get of the Gateway: its annotations as they are now, or
\* an error
GatewayAnswers(obj, eventType) ==
    IF LookupsFor(obj, eventType) = {[err |-> TRUE]} THEN {[err |-> TRUE]}
    ELSE {[err |-> TRUE], [err |-> FALSE, annotations |-> gateway]}

\* processEvent: handleEvent for a watch event of one of the objects
HandleObjectEvent ==
    /\ exited = "no"
    /\ nev < MaxHandled
    /\ nev' = nev + 1
    /\ \E kind \in Kinds, eventType \in EventTypes :
          \E obj \in EventObjects(kind) :
             \E lookup \in GatewayAnswers(obj, eventType) :
                /\ handleEvent(kind, obj, eventType, FALSE, lookup)
                /\ call' = Applied("handleEvent", <<kind, obj, lookup>>, ret')
                /\ last' = Observed(kind, "watch", obj, eventType, FALSE,
                                    lookup, FALSE)
    /\ UNCHANGED <<concVars, envVars, exited, cfg, cluster, pc, listLen, listIdx, listSeen, cancelled, ncalls, seeded>>

\* slip: the endpoints are dropped, to be built again, when the Gateway
\* changes
GatewayChanged_Resync ==
    /\ exited = "no"
    /\ \E annotations \in GatewayAnnotations \ {gateway} : gateway' = annotations
    /\ endpoints' = EmptyFn
    /\ last' = NoEvent("", "gateway")
    /\ UNCHANGED <<file, ret, listedAtWrite, concVars, gone, call, exited, cfg, cluster, pc, listLen, listIdx, listSeen, cancelled, nev, ncalls, seeded>>

\* the annotations of the Gateway are edited: no controller watches
\* Gateways, so no code of the program runs
GatewayChanged ==
    /\ exited = "no"
    /\ \E annotations \in GatewayAnnotations \ {gateway} : gateway' = annotations
    /\ last' = NoEvent("", "gateway")
    /\ UNCHANGED <<mgrVars, concVars, gone, call, exited, cfg, cluster, pc, listLen, listIdx, listSeen, cancelled, nev, ncalls, seeded>>

EventInit == \E gw \in GatewayAnnotations : MgrInitWith(gw)

EventNext == HandleObjectEvent \/ GatewayChanged

EventSpec == EventInit /\ [][EventNext]_vars

Next ==
    \/ \E k \in Kinds : ListCall(k)
    \/ \E k \in Kinds : ListItem(k)
    \/ \E k \in Kinds : OpenWatch(k)
    \/ \E k \in Kinds : WatchEvent(k)
    \/ \E k \in Kinds : WatchClosed(k)
    \/ \E k \in Kinds : WatchDone(k)
    \/ \E k \in Kinds : BackoffElapsed(k)
    \/ \E k \in Kinds : RunReturn(k)
    \/ Cancel
    \/ runControllers

Spec == Init /\ [][Next]_vars

RestartSpec == InitRestart /\ [][Next]_vars

\* Spec with the timer of the backoff firing and the Watch call returning
LiveSpec ==
    /\ Init /\ [][Next]_vars
    /\ \A k \in Kinds : WF_vars(BackoffElapsed(k))
    /\ \A k \in Kinds : WF_vars(OpenWatch(k))

\* an object that has an endpoint is deleted from the cluster while the
\* controller of its kind has no watch open: between the return of
\* watchLoop and the next Watch call no code of the controller runs for it
ObjectDeleted(k) ==
    /\ exited = "no"
    /\ pc[k] \in {"backoff", "watch"}
    /\ \E key \in (DOMAIN endpoints \cap KeysOfKind(k)) \ gone :
          gone' = gone \cup {key}
    /\ last' = NoEvent(k, "deleted unwatched")
    /\ UNCHANGED <<mgrVars, concVars, gateway, call, exited, cfg, cluster, pc, listLen, listIdx, listSeen, cancelled, nev, ncalls, seeded>>

GoneNext == Next \/ \E k \in Kinds : ObjectDeleted(k)

\* one controller in a cluster of qualifying objects, some of which are
\* deleted while the watch is down; the backoff elapses and the Watch
\* call returns
GoneSpec ==
    /\ InitWith(RouteConfig, "qualifying") /\ [][GoneNext]_vars
    /\ \A k \in Kinds : WF_vars(BackoffElapsed(k))
    /\ \A k \in Kinds : WF_vars(OpenWatch(k))

\* Spec with every select of Run and watchLoop taking a ready case: the
\* Watch call returns, a done context is noticed on the watch channel and
\* in the backoff
StopSpec ==
    /\ Init /\ [][Next]_vars
    /\ \A k \in Kinds : WF_vars(OpenWatch(k))
    /\ \A k \in Kinds : WF_vars(WatchDone(k))
    /\ \A k \in Kinds : WF_vars(RunReturn(k))

(***************************************************************************)
(* Properties.                                                             *)
(***************************************************************************)
\* the files that hold a serialization of the whole map m
Docs(m) == { DocFile(d) : d \in Serializations(m) }

\* the last step handled an event or a list item whose object converted
Handled == last.op \in {"list", "watch"} /\ last.conv

\* C1: after a watch event (Added or Modified) whose pipeline reached
\* AddOrUpdate and changed the stored endpoint, the file holds the
\* serialization of the whole current map, unless the write failed.
C1_RewrittenOnWatchEvent ==
    ( /\ last.op = "watch" /\ last.conv /\ ~last.deleted
      /\ ret.op = "AddOrUpdate" /\ ret.changed
      /\ ret.write \notin {"unopened", "truncated"} )
    => file \in Docs(endpoints)

\* C2: during the initial list no item but the last causes a write, and when
\* the list is through and has stored an endpoint the file holds the
\* serialization of the whole map, unless the write failed.
C2_OneWriteAfterListing ==
    last.op = "list" =>
        /\ ~last.final => ret.write = "none"
        /\ ( /\ last.final
             /\ seeded \cap KeysOfKind(last.ctl) # {}
             /\ ret.write \notin {"unopened", "truncated"} )
           => file \in Docs(endpoints)

\* C3: a document written after the restart holds the endpoint of every
\* qualifying object that a list had returned before the write and that no
\* watch event has touched since.
C3_NoMissingEndpointsAfterRestart ==
    file.state = "doc" =>
        \A key \in seeded :
            (\E k \in listedAtWrite : key \in KeysOfKind(k)) =>
                \E i \in DOMAIN file.doc :
                    file.doc[i] = yamlMarshalEndpoint(endpoints[key])

\* C4: AddOrUpdate for a key whose stored endpoint equals the candidate
\* returns false, leaves the map and the file as they were and writes
\* nothing, with the flag set or not.
C4_NoOpOnEqualEndpoint ==
    [][ ( /\ ret'.op = "AddOrUpdate"
          /\ ret'.key \in DOMAIN endpoints
          /\ endpoints[ret'.key] = ret'.e )
        => ( /\ ~ret'.changed
             /\ endpoints' = endpoints
             /\ ret'.write = "none"
             /\ file' = file ) ]_vars

C4_Witness ==
    /\ ret.op = "AddOrUpdate" /\ ret.flag /\ ~ret.changed
    /\ ret.key \in DOMAIN endpoints /\ endpoints[ret.key] = ret.e
    /\ file.state = "doc"

\* C5: Remove of a present key returns true, deletes that key and no other
\* and writes the remaining map through (a write that succeeds leaves the
\* serialization of the map, which has no entry for the key); Remove of an
\* absent key returns false, changes nothing and writes nothing.
C5_Remove ==
    [][ ret'.op = "Remove" =>
          IF ret'.key \in DOMAIN endpoints
          THEN /\ ret'.changed
               /\ DOMAIN endpoints' = DOMAIN endpoints \ {ret'.key}
               /\ \A k \in DOMAIN endpoints' : endpoints'[k] = endpoints[k]
               /\ ret'.write # "none"
               /\ ret'.write = "ok" => file' \in Docs(endpoints')
          ELSE /\ ~ret'.changed
               /\ endpoints' = endpoints
               /\ ret'.write = "none"
               /\ file' = file ]_vars

C5_Witness ==
    /\ ret.op = "Remove" /\ ret.changed /\ ret.write = "ok"
    /\ ret.key \notin DOMAIN endpoints
    /\ DOMAIN endpoints # {}
    /\ file \in Docs(endpoints)

\* C6 as stated: after a non-Deleted event for an object that passes
\* ShouldProcess and carries the enabled annotation with a value other than
\* "true" and "1", the key is absent from the map.
C6_DisabledIsAbsent ==
    ( /\ Handled /\ ~last.deleted /\ last.should
      /\ last.enabled \notin {"<absent>", "true", "1"} )
    => last.key \notin DOMAIN endpoints

\* C6 amended: the same, for an object whose extracted URL is not empty.
C6_DisabledWithURLIsAbsent ==
    ( /\ Handled /\ ~last.deleted /\ last.should /\ last.hasURL
      /\ last.enabled \notin {"<absent>", "true", "1"} )
    => last.key \notin DOMAIN endpoints

C6_Witness ==
    /\ Handled /\ ~last.deleted /\ last.should /\ last.hasURL
    /\ last.enabled = "false"
    /\ ret.op = "Remove" /\ ret.changed
    /\ last.key \notin DOMAIN endpoints

\* C7: after a Deleted event, or any event for an object that ShouldProcess
\* rejects, the key is absent; if it was present the remaining map is written
\* through; no other key is added, replaced or removed.
C7_DeletedOrRejectedIsRemoved ==
    [][ ( /\ last'.op \in {"list", "watch"} /\ last'.conv
          /\ (last'.deleted \/ ~last'.should) )
        => ( /\ last'.key \notin DOMAIN endpoints'
             /\ DOMAIN endpoints' = DOMAIN endpoints \ {last'.key}
             /\ \A k \in DOMAIN endpoints' : endpoints'[k] = endpoints[k]
             /\ last'.key \in DOMAIN endpoints =>
                  /\ ret'.write # "none"
                  /\ ret'.write = "ok" => file' \in Docs(endpoints')
             /\ last'.key \notin DOMAIN endpoints => file' = file ) ]_vars

C7_Witness ==
    /\ Handled /\ last.deleted /\ last.should
    /\ ret.op = "Remove" /\ ret.changed /\ ret.write = "ok"
    /\ DOMAIN endpoints # {}

\* C8: a non-Deleted event for an object that passes ShouldProcess and has
\* no URL leaves the map and the file as they were.
C8_NoURLLeavesState ==
    [][ ( /\ last'.op \in {"list", "watch"} /\ last'.conv
          /\ ~last'.deleted /\ last'.should /\ ~last'.hasURL )
        => (endpoints' = endpoints /\ file' = file) ]_vars

C8_Witness ==
    /\ Handled /\ ~last.deleted /\ last.should /\ ~last.hasURL
    /\ last.key \in DOMAIN endpoints

\* C9: when the pipeline gets to the templates (the object passes
\* ShouldProcess, is not Deleted, has a URL and is not disabled) and the
\* template of the object or of its parent does not parse, the map and the
\* file stay as they were.
C9_ParseFailureLeavesState ==
    [][ ( /\ last'.op \in {"list", "watch"} /\ last'.conv
          /\ ~last'.deleted /\ last'.should /\ last'.hasURL
          /\ last'.enabled \in {"<absent>", "true", "1"}
          /\ (last'.objErr \/ last'.parentErr) )
        => (endpoints' = endpoints /\ file' = file) ]_vars

C9_Witness ==
    /\ Handled /\ ~last.deleted /\ last.should /\ last.hasURL
    /\ last.enabled \in {"<absent>", "true", "1"}
    /\ last.parentErr /\ ~last.objErr
    /\ last.key \in DOMAIN endpoints
    /\ ret.op = "none"

\* C10: an event or list item that does not convert leaves the map and the
\* file as they were, and the controller goes on: the watch loop stays on
\* its channel, the list moves to its next item or on to the watch.
C10_ConversionFailureIsSkipped ==
    [][ (last'.op \in {"list", "watch"} /\ ~last'.conv)
        => ( /\ endpoints' = endpoints
             /\ file' = file
             /\ IF last'.op = "watch"
                THEN pc'[last'.ctl] = "watching"
                ELSE IF listIdx[last'.ctl] + 1 < listLen[last'.ctl]
                THEN /\ pc'[last'.ctl] = "listing"
                     /\ listIdx'[last'.ctl] = listIdx[last'.ctl] + 1
                ELSE pc'[last'.ctl] = "watch" ) ]_vars

C10_Witness ==
    /\ last.op = "watch" /\ ~last.conv /\ last.deleted
    /\ DOMAIN endpoints # {}
    /\ pc[last.ctl] = "watching"

\* C11: when every goroutine has called AddOrUpdate for one key with equal
\* endpoints, the key being absent before, and all calls have returned,
\* exactly one call has returned true and the map holds that one entry.
C11_OneEffectiveAdd ==
    \A key \in TestKeys, e \in TestEndpoints :
        (\A t \in Tasks : /\ tasks[t].op = "AddOrUpdate"
                          /\ tasks[t].key = key /\ tasks[t].e = e
                          /\ tasks[t].pc = "done")
        => /\ Cardinality({t \in Tasks : tasks[t].changed}) = 1
           /\ DOMAIN endpoints = {key}
           /\ endpoints[key] = e

C11_Witness ==
    /\ \A t \in Tasks : /\ tasks[t].op = "AddOrUpdate" /\ tasks[t].pc = "done"
                         /\ tasks[t].key = tasks[1].key
                         /\ tasks[t].e = tasks[1].e
    /\ \E t \in Tasks : tasks[t].changed
    /\ \E t \in Tasks : ~tasks[t].changed
    /\ DOMAIN endpoints = {tasks[1].key}

\* C12: while one goroutine is between its serialization and the end of its
\* write no goroutine changes the map, and a write that completes leaves the
\* serialization of the map as it is at that moment, so the file never holds
\* an older map than a write that completed before.
C12_WritesAreSerialized ==
    [][ \A t \in Tasks :
          /\ tasks[t].pc \in {"open", "write"} => endpoints' = endpoints
          /\ (tasks[t].pc = "write" /\ tasks'[t].wres = "ok")
             => file' \in Docs(endpoints') ]_vars

C12_Witness ==
    /\ \A t \in Tasks : /\ tasks[t].pc = "done" /\ tasks[t].changed
                         /\ tasks[t].wres = "ok"
    /\ Cardinality(DOMAIN endpoints) = 2
    /\ file \in Docs(endpoints)

\* C13: a reader of the output file never sees the file truncated or half
\* written.
C13_ReaderSeesWholeDocuments == seen.state # "partial"

\* C14: a call whose write fails still reports the change and leaves the new
\* content in the map; and when a failed write has left the file truncated,
\* the next handling that changes the map and was not asked to skip the write
\* attempts the write again.
C14_FailedWriteIsRetried ==
    [][ /\ (ret'.op = "AddOrUpdate" /\ ret'.write \in {"unopened", "truncated"})
           => /\ ret'.changed
              /\ ret'.key \in DOMAIN endpoints'
              /\ endpoints'[ret'.key] = ret'.e
        /\ (ret'.op = "Remove" /\ ret'.write \in {"unopened", "truncated"})
           => /\ ret'.changed
              /\ ret'.key \notin DOMAIN endpoints'
        /\ ( /\ file.state = "partial"
             /\ last'.op \in {"list", "watch"} /\ ~last'.skipWrite
             /\ ret'.op \in {"AddOrUpdate", "Remove"} /\ ret'.changed )
           => ret'.write # "none" ]_vars

\* C15: a document that is written holds every endpoint of the map exactly
\* once, in ascending order of the endpoint names, whatever the order in
\* which the endpoints were added.
C15_AllEndpointsSortedByName ==
    [][ ret'.write = "ok" =>
          LET d == file'.doc
              n == Cardinality(DOMAIN endpoints')
          IN  /\ file'.state = "doc"
              /\ Len(d) = n
              /\ \E f \in [1..n -> DOMAIN endpoints'] :
                    /\ \A k \in DOMAIN endpoints' : \E i \in 1..n : f[i] = k
                    /\ \A i \in 1..n :
                          d[i] = yamlMarshalEndpoint(endpoints'[f[i]])
              /\ \A i, j \in 1..n :
                    i < j => ~StrLess(d[j].name, d[i].name) ]_vars

\* the endpoint added last is listed first, before one added earlier
C15_Witness ==
    /\ ret.op = "AddOrUpdate" /\ ret.changed /\ ret.write = "ok"
    /\ file.state = "doc" /\ Len(file.doc) = 2
    /\ file.doc[1] = yamlMarshalEndpoint(ret.e)
    /\ StrLess(file.doc[1].name, file.doc[2].name)
    /\ StrLess(file.doc[1].url, file.doc[2].url)

\* C16: the map has one serialization: any two runs of getCurrentState and
\* yaml.Marshal on the same content give the same sequence of endpoints.
C16_OneSerialization ==
    \A d1, d2 \in Serializations(endpoints) : d1 = d2

\* the objects an event can be about: names may hold dots, namespaces and
\* resource names, being DNS labels, do not
OtherNames == Names \cup {"a.default", "default"}
OtherNamespaces == Namespaces \cup {"a", "b"}
OtherKinds == Kinds \cup {"ingresses"}

C18_ShouldProcess ==
    call.fn = "ShouldProcess" =>
        LET obj == call.args[1]
            c == call.args[2]
            rejected == /\ obj.kind = "httproutes"
                        /\ c.GatewayName # ""
                        /\ \A i \in DOMAIN obj.parentRefs :
                              obj.parentRefs[i] # c.GatewayName
            auto == IF obj.kind = "httproutes" THEN c.AutoHTTPRoute
                    ELSE c.AutoService
            annotated == \E key \in DOMAIN obj.annotations :
                            key \in {EnabledAnnotation, TemplateAnnotation}
        IN  call.out = IF rejected THEN FALSE
                       ELSE IF auto THEN TRUE
                       ELSE annotated

\* the filter rejects an object of a kind in auto mode that carries
\* enabled: "true"
C18_Witness ==
    /\ call.fn = "ShouldProcess"
    /\ call.out = FALSE
    /\ call.args[1].kind = "httproutes"
    /\ call.args[2].AutoHTTPRoute
    /\ EnabledAnnotation \in DOMAIN call.args[1].annotations
    /\ call.args[1].annotations[EnabledAnnotation] = "true"

\* C19: the enabled key is read in the parent's annotations merged under the
\* object's own: an object that passes ShouldProcess, has a URL and no enabled
\* annotation, and whose parent carries the enabled annotation with a value
\* other than "true" and "1", is absent after the event; an object with its
\* own enabled: "true" (or "1") and such a parent gets its endpoint.
C19_ParentDisablesChild ==
    ( /\ Handled /\ ~last.deleted /\ last.should /\ last.hasURL
      /\ last.parentEnabled \notin {"<absent>", "true", "1"} )
    => /\ last.enabled = "<absent>" => last.key \notin DOMAIN endpoints
       /\ (last.enabled \in {"true", "1"} /\ ~last.objErr /\ ~last.parentErr)
             => last.key \in DOMAIN endpoints

\* r is the deep merge of parent p and child c: if one side is absent r is
\* the other; otherwise r has the keys of both, a key of one side only keeps
\* its value, a key whose two values are maps holds their deep merge, and
\* any other shared key holds the child's value whole.
RECURSIVE IsDeepMerge(_, _, _)
IsDeepMerge(p, c, r) ==
    IF IsNil(p) THEN r = c
    ELSE IF IsNil(c) THEN r = p
    ELSE /\ IsMap(r)
         /\ DOMAIN r.map = DOMAIN p.map \cup DOMAIN c.map
         /\ \A k \in DOMAIN p.map \ DOMAIN c.map : r.map[k] = p.map[k]
         /\ \A k \in DOMAIN c.map \ DOMAIN p.map : r.map[k] = c.map[k]
         /\ \A k \in DOMAIN p.map \cap DOMAIN c.map :
               IF IsMap(p.map[k]) /\ IsMap(c.map[k])
               THEN IsDeepMerge(p.map[k], c.map[k], r.map[k])
               ELSE r.map[k] = c.map[k]

\* C20: deepMergeTemplates(parent, child) is the deep merge of the two, for
\* every pair of trees.
C20_DeepMerge ==
    call.fn = "deepMergeTemplates" =>
        IsDeepMerge(call.args[1], call.args[2], call.out)

\* parent {b: 1, a: {a: 1}} and child {a: {b: 2}} give {b: 1, a: {a: 1, b: 2}}
C20_Witness ==
    /\ call.fn = "deepMergeTemplates"
    /\ call.args[1] = MkMap(("b" :> Num(1)) @@
                            ("a" :> MkMap("a" :> Num(1))))
    /\ call.args[2] = MkMap("a" :> MkMap("b" :> Num(2)))
    /\ call.out = MkMap(("b" :> Num(1)) @@
                        ("a" :> MkMap(("a" :> Num(1)) @@ ("b" :> Num(2)))))

\* the template of the parent and of the object an applied handleEvent read,
\* and whether the two together hold the key k
ParentTemplate ==
    parseTemplateData(ParentAnnotationsOf(call.args[2], call.args[3]),
                      TemplateAnnotation).data
ObjectTemplate ==
    parseTemplateData(call.args[2].annotations, TemplateAnnotation).data
Holds(t, k) == IsMap(t) /\ k \in DOMAIN t.map
Merged(k) == IF Holds(ObjectTemplate, k) THEN ObjectTemplate.map[k]
             ELSE ParentTemplate.map[k]
MergedHolds(k) == Holds(ObjectTemplate, k) \/ Holds(ParentTemplate, k)

\* the last call of handleEvent stored an endpoint
Stored == call.fn = "handleEvent" /\ ret.op = "AddOrUpdate"

\* C21: in the endpoint that handleEvent stores, each of name, url, interval
\* and group that the templates set to a string holds that string, whatever
\* the defaults and the handler of the kind (the guarded URL included) had
\* put there; a key set by the parent and by the object holds the object's
\* value.
C21_TemplateOverrides ==
    Stored =>
        LET e == endpoints[ret.key]
            field == [name |-> e.Name, url |-> e.URL, interval |-> e.Interval,
                      group |-> e.Group]
        IN  \A k \in DOMAIN field :
               (MergedHolds(k) /\ IsStr(Merged(k))) => field[k] = Merged(k).str

\* the parent sets name: web, the object name: api, and api is stored
C21_Witness ==
    /\ Stored
    /\ Holds(ParentTemplate, "name") /\ ParentTemplate.map["name"] = Str("web")
    /\ Holds(ObjectTemplate, "name") /\ ObjectTemplate.map["name"] = Str("api")
    /\ endpoints[ret.key].Name = "api"
    /\ endpoints[ret.key].Group = "core"
    /\ endpoints[ret.key].Interval = "5m"

\* C22: the guarded flag of the endpoint that handleEvent stores is true
\* exactly when the templates of the parent and the object together hold the
\* key guarded, whatever its value.
C22_GuardedIffKeyPresent ==
    Stored => (endpoints[ret.key].Guarded <=> MergedHolds("guarded"))

\* C23: Handler.ApplyTemplate on a guarded endpoint of a kind with a guarded
\* function (httproutes) sets the URL to 1.1.1.1, dns to the query for the
\* first hostname with type A and the conditions to the empty-body condition
\* alone; on any other endpoint it sets the conditions to the default
\* condition of the kind alone.  Every other field is left as it was.
C23_ExactlyOneBranch ==
    call.fn = "Handler.ApplyTemplate" =>
        LET obj == call.args[1]
            e == call.args[2]
        IN  IF e.Guarded /\ obj.kind = "httproutes"
            THEN call.out =
                   [e EXCEPT
                      !.URL = "1.1.1.1",
                      !.DNS = MkMap(("query-name" :>
                                        Str(IF obj.hostnames = <<>> THEN ""
                                            ELSE Head(obj.hostnames)))
                                    @@ ("query-type" :> Str("A"))),
                      !.Conditions = MkSeq(<<"len([BODY]) == 0">>)]
            ELSE call.out =
                   [e EXCEPT
                      !.Conditions =
                         MkSeq(<<IF obj.kind = "httproutes" THEN "[STATUS] == 200"
                                 ELSE "[CONNECTED] == true">>)]

\* a guarded endpoint with conditions and dns of its own, for an HTTPRoute
\* with a hostname
C23_Witness ==
    /\ call.fn = "Handler.ApplyTemplate"
    /\ call.args[1].kind = "httproutes"
    /\ call.args[1].hostnames = <<"a.example.com">>
    /\ call.args[2].Guarded
    /\ call.args[2].Conditions = MkSeq(<<"[STATUS] == 200">>)
    /\ call.out.URL = "1.1.1.1"
    /\ call.out.Conditions = MkSeq(<<"len([BODY]) == 0">>)
    /\ call.out.DNS = MkMap(("query-name" :> Str("a.example.com"))
                            @@ ("query-type" :> Str("A")))

\* C24: every endpoint in the map has a name and a URL that are not empty.
C24_NameAndURLNotEmpty ==
    \A key \in DOMAIN endpoints :
        endpoints[key].Name # "" /\ endpoints[key].URL # ""

\* the maps that the last call of Endpoint.ApplyTemplate was handed under
\* the keys dns, client and ui, with the field before and after
MapOverrides ==
    LET e == call.args[1]
        t == call.args[2]
        before == [dns |-> e.DNS, client |-> e.Client, ui |-> e.UI]
        after == [dns |-> call.out.DNS, client |-> call.out.Client,
                  ui |-> call.out.UI]
    IN  { [old |-> before[k], override |-> t.map[k], new |-> after[k]] :
            k \in { x \in DOMAIN before :
                      IsMap(t) /\ x \in DOMAIN t.map /\ IsMap(t.map[x]) } }

\* C25: a map handed to Endpoint.ApplyTemplate under dns, client or ui is
\* deep-merged into the field: the field becomes the override when it was
\* nil, and otherwise keeps, at every level, the keys the override does not
\* mention and takes the override's values for the others.
C25_MapOverrideIsDeepMerge ==
    call.fn = "Endpoint.ApplyTemplate" =>
        \A m \in MapOverrides : IsDeepMerge(m.old, m.override, m.new)

\* the elements of s that are strings, in their order
RECURSIVE StringElements(_)
StringElements(s) ==
    IF s = <<>> THEN <<>>
    ELSE IF IsStr(Head(s)) THEN <<Head(s).str>> \o StringElements(Tail(s))
    ELSE StringElements(Tail(s))

\* C26: an override of conditions by a string gives the one string, by a
\* []string the same strings, by a []any its string elements in their
\* order; any other value leaves the conditions as they were, so they stay
\* a sequence of strings.
C26_ConditionsNormalized ==
    ( /\ call.fn = "Endpoint.ApplyTemplate"
      /\ IsMap(call.args[2]) /\ "conditions" \in DOMAIN call.args[2].map )
    => LET v == call.args[2].map["conditions"]
           conditions == call.out.Conditions
       IN  conditions =
             IF IsStr(v) THEN MkSeq(<<v.str>>)
             ELSE IF IsStrings(v) THEN MkSeq(v.strs)
             ELSE IF IsSeq(v) THEN MkSeq(StringElements(v.seq))
             ELSE call.args[1].Conditions

\* ["[STATUS]==200", 42, "[RESPONSE_TIME]<500"] replaces the conditions
\* present by its two strings
C26_Witness ==
    /\ call.fn = "Endpoint.ApplyTemplate"
    /\ call.args[1].Conditions = MkSeq(<<"[STATUS] == 200">>)
    /\ IsMap(call.args[2]) /\ "conditions" \in DOMAIN call.args[2].map
    /\ call.args[2].map["conditions"] =
          MkSeq(<<Str("[STATUS]==200"), Num(42), Str("[RESPONSE_TIME]<500")>>)
    /\ call.out.Conditions = MkSeq(<<"[STATUS]==200", "[RESPONSE_TIME]<500">>)

\* the fields of an endpoint by the template key that sets them
FieldOf(e, key) ==
    CASE key = "name" -> e.Name
      [] key = "group" -> e.Group
      [] key = "url" -> e.URL
      [] key = "interval" -> e.Interval
      [] key = "conditions" -> e.Conditions
      [] key = "dns" -> e.DNS
      [] key = "client" -> e.Client
      [] key = "ui" -> e.UI
      [] key = "guarded" -> e.Guarded

\* the value v has the type that the recognized key wants
WellTyped(key, v) ==
    CASE key \in {"name", "group", "url", "interval"} -> IsStr(v)
      [] key \in {"dns", "client", "ui"} -> IsMap(v)
      [] key = "guarded" -> IsBool(v)
      [] key = "conditions" -> IsStr(v) \/ IsSeq(v) \/ IsStrings(v)

KeysOf(m) == IF IsNil(m) THEN {} ELSE DOMAIN m.map

\* C27: Endpoint.ApplyTemplate leaves the field of a recognized key alone
\* when the value under the key has another type than the key wants, and
\* does not put the key into Extra; a nil template leaves the endpoint as it
\* was.
C27_WrongTypeIsIgnored ==
    call.fn = "Endpoint.ApplyTemplate" =>
        LET e == call.args[1]
            t == call.args[2]
        IN  IF IsNil(t) THEN call.out = e
            ELSE \A key \in ReservedKeys \cap DOMAIN t.map :
                    ~WellTyped(key, t.map[key]) =>
                        /\ FieldOf(call.out, key) = FieldOf(e, key)
                        /\ key \notin KeysOf(call.out.Extra)

\* name: 123 next to interval: "30s": the interval is set, the name stays
C27_Witness ==
    /\ call.fn = "Endpoint.ApplyTemplate"
    /\ call.args[2] = MkMap(("name" :> Num(123)) @@ ("interval" :> Str("30s")))
    /\ call.out.Name = "test"
    /\ call.out.Interval = "30s"
    /\ call.out.Extra = call.args[1].Extra

\* C28: applying a template to an endpoint a second time gives the endpoint
\* that the first application gave.
C28_Idempotent ==
    call.fn = "Endpoint.ApplyTemplate twice" => call.out[1] = call.out[2]

\* a template that changes the conditions and the client map of the endpoint
C28_Witness ==
    /\ call.fn = "Endpoint.ApplyTemplate twice"
    /\ call.out[1].Conditions # call.args[1].Conditions
    /\ call.out[1].Client # call.args[1].Client
    /\ ~IsNil(call.args[1].Client)
    /\ ~IsNil(call.args[1].Conditions)
    /\ IsSeq(call.args[2].map["conditions"])
    /\ call.out[2] = call.out[1]

\* C29: the Run of a controller returns an error only as the outcome of its
\* List call, before it has opened a watch, and has then returned for good;
\* after the list no step makes it return an error, and on cancellation it
\* returns nil; a process in which a Run has returned an error ends with
\* status 1.
C29_RunFailsOnlyOnFirstList ==
    [][ \A k \in Kinds :
          /\ (pc'[k] = "failed" /\ pc[k] # "failed")
                => (pc[k] = "start" /\ last'.op = "listcall" /\ last'.ctl = k)
          /\ pc[k] = "failed" => pc'[k] = "failed"
          /\ pc[k] \in {"listing", "watch", "watching", "backoff", "stopped"}
                => pc'[k] # "failed"
          /\ (pc'[k] = "stopped" /\ pc[k] # "stopped")
                => (pc[k] = "backoff" /\ cancelled)
          /\ (pc[k] = "failed" /\ exited' # exited) => ExitStatus' = 1 ]_vars

\* the list of one controller has failed while the other one watches, and
\* the process has ended with the error
C29_Witness ==
    /\ exited = "controller error"
    /\ \E k1, k2 \in Kinds : pc[k1] = "failed" /\ pc[k2] = "watching"

\* C30: a failed Watch call and a closed watch channel lead to the backoff;
\* after the backoff the controller opens a watch again, unless the context
\* is done, and never goes back to the initial list; none of these steps
\* changes the map or the file.
C30_Reconnects ==
    /\ [][ \A k \in Kinds :
             /\ (last'.op \in {"open", "closed", "elapsed"} /\ last'.ctl = k)
                   => (endpoints' = endpoints /\ file' = file)
             /\ (pc[k] = "watch" /\ pc'[k] # "watch")
                   => (last'.op = "open" /\ pc'[k] \in {"watching", "backoff"})
             /\ (pc[k] = "watching" /\ last'.op = "closed" /\ last'.ctl = k)
                   => pc'[k] = "backoff"
             /\ (pc[k] = "backoff" /\ pc'[k] # "backoff")
                   => pc'[k] = IF cancelled THEN "stopped" ELSE "watch"
             /\ pc[k] \in {"watch", "watching", "backoff"}
                   => pc'[k] \in {"watch", "watching", "backoff", "stopped"} ]_vars
    /\ \A k \in Kinds :
          (pc[k] = "backoff") ~> (cancelled \/ (last.op = "open" /\ last.ctl = k))

\* a watch has delivered an event and stored an endpoint, and the
\* controller has just opened a watch again
C30_Witness ==
    /\ last.op = "open" /\ last.ctl = "httproutes"
    /\ pc["httproutes"] = "watching"
    /\ nev > 0
    /\ DOMAIN endpoints # {}
    /\ ~cancelled


\* the controllers whose Run is past the initial list and has not returned
Reconnecting == {k \in Kinds : pc[k] \in {"watch", "watching", "backoff"}}

\* C31: once the context is cancelled, the Run of every controller that is
\* blocked on the watch channel, opening a watch or sleeping in the backoff
\* eventually returns nil.
C31_RunReturnsAfterCancel ==
    \A k \in Kinds : (cancelled /\ k \in Reconnecting) ~> (pc[k] = "stopped")

\* what Run does on its own: it returns nil unless the process ends first
C31_RunReturnsUnlessExited ==
    \A k \in Kinds :
       (cancelled /\ k \in Reconnecting) ~> (pc[k] = "stopped" \/ exited # "no")


\* the object of the last handleEvent passes every test before the templates
Eligible ==
    LET obj == call.args[2]
    IN  /\ ShouldProcess(obj, cfg)
        /\ ExtractURL(obj) # ""
        /\ ~isEndpointDisabled(obj.annotations)

\* C32: when the annotations of the parent cannot be read, the event of an
\* HTTPRoute is handled to its end with the route's own template alone: an
\* endpoint is stored exactly when the route is eligible and its own
\* template parses, and it is the endpoint built from that template.
C32_FailedLookupIsNoParent ==
    (call.fn = "handleEvent" /\ call.args[1] = "httproutes" /\ call.args[3].err) =>
        LET obj == call.args[2]
            own == parseTemplateData(obj.annotations, TemplateAnnotation)
        IN  /\ (ret.op = "AddOrUpdate") <=> (Eligible /\ ~own.err)
            /\ ret.op = "AddOrUpdate" =>
                   endpoints[ret.key] = BuildEndpoint(obj, ExtractURL(obj), own.data)

\* the Get of the Gateway failed and the route's own interval is stored
C32_Witness ==
    /\ Stored
    /\ call.args[1] = "httproutes"
    /\ call.args[3].err
    /\ Len(call.args[2].parentRefs) > 0
    /\ Holds(ObjectTemplate, "interval")
    /\ endpoints[ret.key].Interval = "30s"
    /\ endpoints[ret.key].URL = "https://a.example.com"


\* s begins with a URL scheme
HasScheme(s) == HasPrefix(s, "http://") \/ HasPrefix(s, "https://")

\* C33: urlExtractor gives "" for a route without hostnames; otherwise it
\* gives the first hostname unchanged if that begins with http:// or
\* https://, and "https://" followed by the first hostname if it does not.
C33_SchemeOrHttpsPrefix ==
    call.fn = "urlExtractor" =>
        LET hostnames == call.args[1].hostnames
        IN  call.out = IF hostnames = <<>> THEN ""
                       ELSE IF HasScheme(hostnames[1]) THEN hostnames[1]
                       ELSE "https://" \o hostnames[1]


\* the event just handled asks for an endpoint: it is no deletion and the
\* object passes every test of handleEvent
AsksForEndpoint(ev) ==
    /\ ev.conv /\ ~ev.deleted
    /\ ev.should /\ ev.hasURL
    /\ ev.enabled \in {"<absent>", "true", "1"}
    /\ ~ev.objErr /\ ~ev.parentErr

Returned_Run(k) == pc[k] \in {"off", "stopped", "failed"}

\* C35: when the context is cancelled, runControllers returns, and main goes
\* on to end the process, only when the Run of every controller has returned.
C35_ExitWaitsForRuns ==
    [][ (exited = "no" /\ exited' # "no" /\ cancelled)
           => \A k \in Kinds : Returned_Run(k) ]_vars

\* C36: a process that ended after the context was cancelled, no Run having
\* failed, ended on the success path of main, with exit status 0.
C36_CancelIsSuccess ==
    (exited # "no" /\ cancelled /\ \A k \in Kinds : pc[k] # "failed")
       => ExitStatus = 0


\* C37: the endpoint of an object that was deleted while the watch of its
\* controller was down is eventually removed from the map once the
\* controller is watching again, unless the process is shutting down.
C37_DeletedWhileDisconnectedIsRemoved ==
    \A k \in Kinds : \A key \in KeysOfKind(k) :
       (key \in gone /\ pc[k] = "watching")
          ~> (key \notin DOMAIN endpoints \/ cancelled)


\* C38: whenever AddOrUpdate reports changed=true, the serialization of the
\* new map differs from the serialization of the old one.
C38_ChangedMeansNewDocument ==
    [][ (nev' = nev + 1 /\ ret'.op = "AddOrUpdate" /\ ret'.changed)
           => Serializations(endpoints') # Serializations(endpoints) ]_vars


\* the key of the object of the last handleEvent, from the object's own
\* name, namespace and kind
ObjectKey(c) == c.args[2].name \o "." \o c.args[2].namespace \o "." \o c.args[1]

\* C39: an event touches the entry under the key made of the object's own
\* name, namespace and kind and no other: whatever name the template gives
\* the endpoint, an Added or Modified event that asks for an endpoint
\* stores it under that key, a Deleted event leaves that key absent, and no
\* other key appears, disappears or changes.
C39_KeyFromObjectNotEndpoint ==
    [][ nev' = nev + 1 =>
          LET key == ObjectKey(call')
          IN  /\ AsksForEndpoint(last')
                    => (key \in DOMAIN endpoints' /\ endpoints'[key] = ret'.e)
              /\ last'.deleted => key \notin DOMAIN endpoints'
              /\ \A other \in (DOMAIN endpoints \cup DOMAIN endpoints') \ {key} :
                    /\ other \in DOMAIN endpoints /\ other \in DOMAIN endpoints'
                    /\ endpoints'[other] = endpoints[other] ]_vars

\* the route and the service were stored, the service under the name web of
\* its template; the Deleted event of the route removed the route's entry
\* and nothing else
C39_Witness ==
    /\ call.fn = "handleEvent" /\ ObjectKey(call) = "a.default.httproutes"
    /\ last.deleted
    /\ ret.op = "Remove" /\ ret.changed
    /\ DOMAIN endpoints = {"a.default.services"}
    /\ endpoints["a.default.services"].Name = "web"


====
